---------------------------- MODULE Spec2Model ----------------------------
(***************************************************************************)
(* A model of cassbot (src/cassbot.py): the mask matcher, the plugin       *)
(* registry with its two derived indexes, the event wrapper built by       *)
(* make_watch_wrapper, the command path privmsg -> dispatch_command ->     *)
(* command_not_found -> address_msg, and the outbound msg call.            *)
(*                                                                         *)
(* Text is a sequence of one-character strings, so that splitting,         *)
(* stripping, tokenizing, case folding and wildcard matching are computed  *)
(* character by character as the Python code computes them.                *)
(***************************************************************************)
EXTENDS Naturals, Sequences, FiniteSets, TLC

(***************************************************************************)
(* Bounds of the model.                                                    *)
(***************************************************************************)
MaxMaskLen == 3

MaxUserLen == 4

\* The number of wrapped-callback occurrences that overlap in time.
MaxOcc == 2

\* The length of an inbound message (any text / command-shaped text).
MaxMsgLen == 3

MaxCmdLen == 3

\* The length of the text of a reply handed to address_msg.
MaxReplyLen == 3

\* The largest number of holder entries a privilege map holds in all.
MaxGrants == 4

\* The depth of nested userHas calls past which a resolution counts as one
\* that does not come back.
MaxDepth == 6

\* The connections made during a run of the service.
MaxConns == 3

\* The steps the reconnect backoff can have grown by.
MaxDelay == 2

(***************************************************************************)
(* The state: the arguments and result of a mask_matches call, the        *)
(* AuthMap, the service's registry and saved plugin state, the session's   *)
(* command prefix, and the record of what the calls under observation did. *)
(***************************************************************************)
VARIABLES
    mm_mask,        \* the mask handed to mask_matches
    mm_user,        \* the principal handed to mask_matches
    mm_called,      \* whether mask_matches has been called on them
    mm_result,      \* the value the call returned (FALSE before the call)
    memberships,    \* auth.memberships: privilege name -> direct holders
    auth_call,      \* the last call made on the AuthMap and how it ended
    pluginmap,      \* service.pluginmap: name -> absent / reserved / instance
    watcher_map,    \* service.watcher_map: event name -> list of plugins
    command_map,    \* service.command_map: command name -> list of plugins
    state_plugins,  \* service.state['plugins']: name -> saved state
    catalog,        \* how each plugin class of the installation behaves
    discoverable,   \* the plugin classes get_plugin_classes() finds
    hung,           \* whether scan_plugins is in a loop that does not end
    reg_op,         \* the registry call just made and what it did
    cmd_prefix,     \* the session's cmd_prefix: <<>> (None) or <<prefix>>
    op,             \* the privmsg or address_msg call being observed
    dispatched,     \* the dispatch_command calls made for op
    cmdcalls,       \* the command handler invocations made for op, in order
    sent,           \* the outbound (destination, text) messages, in order
    occs,           \* the calls of wrapped callbacks, in order of arrival
    calls,          \* the event handler invocations, in order
    state_ident,    \* service.state: nickname, channels, cmd_prefix
    statefile,      \* what the state file holds
    life,           \* the saveStateToFile or startService call just made
    conns,          \* the connections made so far and how far each has got
    prot,           \* factory.prot: 0 (no such attribute) or a connection
    delay,          \* factory.delay, the reconnect backoff
    admin_call,     \* the Admin command just handled and what it did
    channel_memberships, \* the session's channel_memberships: key -> users
    member_call     \* the membership callback just handled and how it ended

(***************************************************************************)
(* Text helpers.                                                           *)
(***************************************************************************)
\* All sequences over S of length at most n.
SeqsUpTo(S, n) == UNION {[1..k -> S] : k \in 0..n}

\* str.find: the index of the first c in s, 0 when there is none.
RECURSIVE IndexFrom(_, _, _)
IndexFrom(s, c, i) ==
    IF i > Len(s) THEN 0
    ELSE IF s[i] = c THEN i
    ELSE IndexFrom(s, c, i + 1)

IndexOf(s, c) == IndexFrom(s, c, 1)

\* s.split(c, 1): one part when c does not occur, else the text before the
\* first c and the text after it.
SplitOnce(s, c) ==
    LET i == IndexOf(s, c)
    IN  IF i = 0 THEN <<s>>
        ELSE <<SubSeq(s, 1, i - 1), SubSeq(s, i + 1, Len(s))>>

(***************************************************************************)
(* Mask matcher: splituser, fnmatch, mask_matches.                         *)
(***************************************************************************)
splituser(user) ==
    LET parts == SplitOnce(user, "!")
    IN  IF Len(parts) = 1 THEN <<parts[1], <<>>, <<>>>>
        ELSE LET hostparts == SplitOnce(parts[2], "@")
             IN  IF Len(hostparts) = 1
                 THEN <<parts[1], <<>>, hostparts[1]>>
                 ELSE <<parts[1], hostparts[1], hostparts[2]>>

\* fnmatch.fnmatch on the alphabet of the model: "*" matches any run of
\* characters, "?" any one character, every other character itself; the
\* whole name must match.  (The alphabet holds no "[", so character classes
\* do not arise.)
RECURSIVE fnmatch(_, _)
fnmatch(name, pat) ==
    IF pat = <<>> THEN name = <<>>
    ELSE IF Head(pat) = "*"
         THEN fnmatch(name, Tail(pat))
              \/ (name # <<>> /\ fnmatch(Tail(name), pat))
         ELSE /\ name # <<>>
              /\ (Head(pat) = "?" \/ Head(pat) = Head(name))
              /\ fnmatch(Tail(name), Tail(pat))

mask_matches(mask, user) ==
    LET mparts == splituser(mask)
        uparts == splituser(user)
    IN  \A i \in 1..3 : fnmatch(uparts[i], mparts[i])

MaskChars == {"a", "*", "?", "!", "@"}

UserChars == {"a", "b", "!", "@"}

Masks == SeqsUpTo(MaskChars, MaxMaskLen)

Principals == SeqsUpTo(UserChars, MaxUserLen)

(***************************************************************************)
(* AuthMap: memberships maps a privilege name to its direct holders, a     *)
(* set once addPriv has created the entry and a list once removePriv has   *)
(* rewritten it.  Holders are masks or privilege names.                    *)
(***************************************************************************)
PrivNames == {<<"a">>, <<"o">>, <<"c">>}

AuthMasks == PrivNames \cup {<<"b", "!", "*", "@", "*">>}

AuthUsers == {<<"b", "!", "x", "@", "y">>, <<"c">>}

NoMembers == [kind |-> "absent", members |-> {}]

\* AuthMap.whoHas: memberships.get(privname, ())
whoHas(mem, privname) ==
    IF privname \in DOMAIN mem THEN mem[privname].members ELSE {}

\* (userHas without the delegation loop.)
RECURSIVE userHasDirectOnly(_, _, _, _, _)
userHasDirectOnly(mem, user, privname, skip, depth) ==
    [value |-> \E mask \in whoHas(mem, privname) : mask_matches(mask, user),
     deep  |-> FALSE]

\* (This variant returns true for a privilege that anybody holds.)
userHasAnyHolder(mem, user, privname, skip, depth) ==
    [value |-> whoHas(mem, privname) # {}, deep |-> FALSE]

\* (userHas without the test `m in skip`.)
RECURSIVE userHasNoSkip(_, _, _, _, _)
userHasNoSkip(mem, user, privname, skip, depth) ==
    LET members == whoHas(mem, privname)
    IN  IF depth > MaxDepth THEN [value |-> FALSE, deep |-> TRUE]
        ELSE IF \E mask \in members : mask_matches(mask, user)
        THEN [value |-> TRUE, deep |-> FALSE]
        ELSE LET subs == {userHasNoSkip(mem, user, m, skip \cup members, depth + 1) :
                            m \in members}
             IN  [value |-> \E r \in subs : r.value,
                  deep  |-> \E r \in subs : r.deep]

\* AuthMap.userHas, called at nesting depth `depth`.  value is what the call
\* returns; deep tells that the nesting went past MaxDepth.  The holders
\* are iterated in no particular order, so every nested call that some
\* order makes is followed.
RECURSIVE userHas(_, _, _, _, _)
userHas(mem, user, privname, skip, depth) ==
    LET members == whoHas(mem, privname)
    IN  IF depth > MaxDepth THEN [value |-> FALSE, deep |-> TRUE]
        ELSE IF \E mask \in members : mask_matches(mask, user)
        THEN [value |-> TRUE, deep |-> FALSE]
        ELSE LET newskip == skip \cup members
                 subs == {userHas(mem, user, m, newskip, depth + 1) :
                            m \in members \ skip}
             IN  [value |-> \E r \in subs : r.value,
                  deep  |-> \E r \in subs : r.deep]

\* The chains of nested userHas calls that a call userHas(user, privname,
\* skip) can make, each as the sequence of the privilege names whose holders
\* the calls on it read and iterate; path is the chain down to the call.
RECURSIVE ExpansionPaths(_, _, _, _, _, _)
ExpansionPaths(mem, user, privname, skip, path, depth) ==
    LET members == whoHas(mem, privname)
        here    == Append(path, privname)
    IN  IF depth > MaxDepth THEN {here}
        ELSE IF \E mask \in members : mask_matches(mask, user) THEN {here}
        ELSE {here} \cup
             UNION {ExpansionPaths(mem, user, m, skip \cup members, here, depth + 1) :
                       m \in members \ skip}

\* The number of holder entries of a privilege map.
RECURSIVE Entries(_, _)
Entries(mem, names) ==
    IF names = {} THEN 0
    ELSE LET n == CHOOSE x \in names : TRUE
         IN  Cardinality(mem[n].members) + Entries(mem, names \ {n})

(***************************************************************************)
(* Text operations of the command path.                                    *)
(***************************************************************************)
\* str.startswith
StartsWith(s, pre) == Len(s) >= Len(pre) /\ SubSeq(s, 1, Len(pre)) = pre

\* s[n:]
Drop(s, n) == SubSeq(s, n + 1, Len(s))

RECURSIVE LStrip(_)
LStrip(s) == IF s # <<>> /\ Head(s) = " " THEN LStrip(Tail(s)) ELSE s

RECURSIVE RStrip(_)
RStrip(s) ==
    IF s # <<>> /\ s[Len(s)] = " " THEN RStrip(SubSeq(s, 1, Len(s) - 1)) ELSE s

\* str.strip()
Strip(s) == RStrip(LStrip(s))

LowerChar(c) == IF c = "A" THEN "a" ELSE c

\* str.lower()
Lower(s) == [i \in DOMAIN s |-> LowerChar(s[i])]

\* s.split(c): the texts between the occurrences of c, in order.
RECURSIVE Split(_, _)
Split(s, c) ==
    LET i == IndexOf(s, c)
    IN  IF i = 0 THEN <<s>>
        ELSE <<SubSeq(s, 1, i - 1)>> \o Split(SubSeq(s, i + 1, Len(s)), c)

\* shlex.split (POSIX rules, whitespace_split, no comments) on the alphabet
\* of the model: tokens are separated by blanks; a double quote opens or
\* closes a quoted run inside a token, in which blanks are kept; a token
\* that was quoted may be empty; a quote left open is a ValueError.
\* state: "ws" between tokens, "word" in a token, "quote" in a quoted run.
RECURSIVE Lex(_, _, _, _, _)
Lex(s, i, state, tok, acc) ==
    IF i > Len(s)
    THEN CASE state = "ws"    -> [ok |-> TRUE, parts |-> acc]
           [] state = "word"  -> [ok |-> TRUE, parts |-> Append(acc, tok)]
           [] state = "quote" -> [ok |-> FALSE, parts |-> <<>>]
    ELSE LET c == s[i]
         IN  CASE state = "ws" ->
                    IF c = " " THEN Lex(s, i + 1, "ws", <<>>, acc)
                    ELSE IF c = "\"" THEN Lex(s, i + 1, "quote", <<>>, acc)
                    ELSE Lex(s, i + 1, "word", <<c>>, acc)
               [] state = "word" ->
                    IF c = " " THEN Lex(s, i + 1, "ws", <<>>, Append(acc, tok))
                    ELSE IF c = "\"" THEN Lex(s, i + 1, "quote", tok, acc)
                    ELSE Lex(s, i + 1, "word", Append(tok, c), acc)
               [] state = "quote" ->
                    IF c = "\"" THEN Lex(s, i + 1, "word", tok, acc)
                    ELSE Lex(s, i + 1, "quote", Append(tok, c), acc)

ShlexSplit(s) == Lex(s, 1, "ws", <<>>, <<>>)

\* The session's nickname.
Nick == <<"n">>

\* (A variant that never looks at cmd_prefix.)
CommandStringNoPrefix(channel, message, prefix) ==
    IF StartsWith(message, Nick \o <<":">>)
    THEN [some |-> TRUE, str |-> Drop(message, Len(Nick) + 1)]
    ELSE IF channel = Nick
    THEN [some |-> TRUE, str |-> message]
    ELSE [some |-> FALSE, str |-> <<>>]

\* privmsg, lines 297-303: the command text of a message, if it has one.
\* cmd_prefix is <<>> for None and <<prefix>> when one is configured.
CommandString(channel, message, prefix) ==
    IF StartsWith(message, Nick \o <<":">>)
    THEN [some |-> TRUE, str |-> Drop(message, Len(Nick) + 1)]
    ELSE IF prefix # <<>> /\ StartsWith(message, prefix[1])
    THEN [some |-> TRUE, str |-> Drop(message, Len(prefix[1]))]
    ELSE IF channel = Nick
    THEN [some |-> TRUE, str |-> message]
    ELSE [some |-> FALSE, str |-> <<>>]

\* privmsg, lines 304-308: what the default handling does with a message:
\* "ignore" (no command text), "raise" (shlex.split raises ValueError, or
\* parts[0] raises IndexError) or "dispatch" with the verb and arguments.
ParsePrivmsg(channel, message, prefix) ==
    LET cs == CommandString(channel, message, prefix)
        lx == ShlexSplit(Strip(cs.str))
    IN  IF ~cs.some THEN [act |-> "ignore", cmd |-> <<>>, args |-> <<>>]
        ELSE IF ~lx.ok \/ lx.parts = <<>>
        THEN [act |-> "raise", cmd |-> <<>>, args |-> <<>>]
        ELSE [act |-> "dispatch", cmd |-> Head(lx.parts), args |-> Tail(lx.parts)]

\* repr() of a command name: the alphabet holds no character to escape.
Repr(s) == <<"'">> \o s \o <<"'">>

\* command_not_found's text.
NotFoundText(cmd) == <<"Sorry, I don't understand ">> \o Repr(cmd) \o <<". :(">>

\* (A variant that addresses the first line only.)
AddressedSendsFirstLineOnly(user, channel, msg) ==
    LET nick  == SplitOnce(user, "!")[1]
        lines == Split(msg, "\n")
    IN  [k \in 1..Len(lines) |->
            IF channel = Nick
            THEN [dest |-> nick, text |-> lines[k]]
            ELSE [dest |-> channel,
                  text |-> IF k = 1 THEN nick \o <<":", " ">> \o lines[k]
                           ELSE lines[k]]]

\* address_msg: the (destination, text) of each self.msg call, in order.
AddressedSends(user, channel, msg) ==
    LET nick  == SplitOnce(user, "!")[1]
        lines == Split(msg, "\n")
    IN  [k \in 1..Len(lines) |->
            IF channel = Nick
            THEN [dest |-> nick, text |-> lines[k]]
            ELSE [dest |-> channel, text |-> nick \o <<":", " ">> \o lines[k]]]

(***************************************************************************)
(* The plugins of the model.  A plugin class answers name(),               *)
(* interestingMethods(), implementedCommands() and saveState(); its        *)
(* handlers are opaque and are modelled by their outcome only.             *)
(***************************************************************************)
PluginNames == {"P1", "P2", "P3"}

\* The wrapped callbacks of CassBotCore.overrideable that the model drives.
\* "action" and "noticed" keep twisted's default handling, which does
\* nothing; privmsg and msg have handling of their own.
EventNames == {"privmsg", "msg", "action", "noticed"}

\* What interestingMethods() of each plugin class yields.
PluginMethods(p) ==
    CASE p = "P1" -> {"action"}
      [] p = "P2" -> {"msg", "action", "noticed"}
      [] p = "P3" -> {"privmsg"}

\* What implementedCommands() of each plugin class yields: by default the
\* names of its command_* methods, in the letter case they are written in.
PluginCommands(p) ==
    CASE p = "P1" -> {<<"a">>}
      [] p = "P2" -> {<<"a">>}
      [] p = "P3" -> {<<"A">>}

\* getattr(p, 'command_' + cmd): the interface asks that every name a plugin
\* reports correspond to a method command_<name>; attribute names are
\* case-sensitive.
HasCommandMethod(p, cmd) == cmd \in PluginCommands(p)

\* BaseBotPlugin.saveState: nothing to save.
PluginSaveState(p) == "None"

\* What a saveState() can return and service.state['plugins'] can hold for a
\* name: None (no entry), an empty value, or a value with content.
SaveValues == {"None", "empty", "v1", "v2"}

\* `if pstate:`
Truthy(v) == v \notin {"None", "empty"}

CommandNames == UNION {PluginCommands(p) : p \in PluginNames}

\* The order in which getPlugins enumerates the plugin classes it finds.
Discovery == <<"P1", "P2", "P3">>

Range(s) == {s[i] : i \in DOMAIN s}

\* A plugin class as the base class gives it, and the ways a class of the
\* installation departs from it: saveState() returns a value, a report
\* raises (after it has yielded some names), interestingMethods() calls
\* enable_plugin_by_name on a name (always, or when the name is not in
\* pluginmap), loadState() raises, getPlugins finds two implementations
\* whose name() is this one (the class defined, or imported, in two modules
\* of the plugin package).
Plain ==
    [stateful |-> FALSE, methods_fail |-> FALSE, commands_fail |-> FALSE,
     enables |-> "nobody", requires |-> "nobody", load_fails |-> FALSE,
     methods_yielded |-> {}, commands_yielded |-> {}, twice |-> FALSE]

PlainCatalog == [p \in PluginNames |-> Plain]

Catalogs ==
    {PlainCatalog,
     [p \in PluginNames |-> [Plain EXCEPT !.stateful = (p = "P1")]],
     [p \in PluginNames |-> [Plain EXCEPT !.methods_fail = (p = "P1"),
                                          !.commands_fail = (p = "P2")]],
     [p \in PluginNames |-> [Plain EXCEPT !.enables =
                                IF p = "P2" THEN "P1" ELSE "nobody"]],
     [p \in PluginNames |-> [Plain EXCEPT !.enables =
                                IF p = "P2" THEN "P3" ELSE "nobody"]],
     [p \in PluginNames |-> [Plain EXCEPT !.requires =
                                IF p = "P3" THEN "P1" ELSE "nobody"]],
     [p \in PluginNames |->
         [Plain EXCEPT !.methods_fail = (p = "P2"),
                       !.methods_yielded = IF p = "P2" THEN {"msg"} ELSE {},
                       !.commands_fail = (p = "P3"),
                       !.commands_yielded = IF p = "P3" THEN {<<"A">>} ELSE {}]],
     [p \in PluginNames |-> [Plain EXCEPT !.twice = (p = "P2")]]}

\* What saveState() of an instance of p can return.
SaveStates(p) ==
    IF catalog[p].stateful THEN SaveValues ELSE {PluginSaveState(p)}

\* The implementations getPlugins yields for the name p.
Implementations(p) ==
    IF p \notin discoverable THEN <<>>
    ELSE IF catalog[p].twice THEN <<p, p>>
    ELSE <<p>>

\* get_plugin_classes(): the classes found, by name, in the order of
\* enumeration.
get_plugin_classes ==
    Implementations(Discovery[1]) \o Implementations(Discovery[2])
        \o Implementations(Discovery[3])

(***************************************************************************)
(* Plugin registry: _really_scan_plugins, scan_plugins.                    *)
(***************************************************************************)
\* (This variant never loads a reserved name.)
NeverNeedsLoading(entry) == FALSE

\* `if p is enabled_but_not_found`
NeedsLoading(entry) == entry = "enabled_but_not_found"

\* (This variant never hands the saved state to the new instance.)
NoLoadStateCalls(pstate) == <<>>

\* enable_plugin: the loadState calls made on the new instance.
LoadStateCalls(pstate) == IF Truthy(pstate) THEN <<pstate>> ELSE <<>>

\* (This variant lets the exception of a report leave the pass.)
NoTryReportAfter(failed) == IF failed THEN "abort" ELSE "next"

\* The try/except around each report: the pass goes on.
ReportAfter(failed) == "next"

\* pluginmap.setdefault(pname, enabled_but_not_found)
SetDefault(pm, pname) ==
    IF pm[pname] = "absent"
    THEN [pm EXCEPT ![pname] = "enabled_but_not_found"]
    ELSE pm

AppendTo(index, names, p) ==
    [n \in DOMAIN index |-> IF n \in names THEN Append(index[n], p) ELSE index[n]]

\* The body of the loop of _really_scan_plugins for the class named p.  A
\* reserved name is instantiated by enable_plugin, which hands it its saved
\* state and whose scan_plugins() call, made while scanning_now is set,
\* only sets scan_again; an exception of loadState leaves enable_plugin and
\* the pass.  interestingMethods() of a class that enables a name does so
\* before it reports; that nested scan_plugins() call sets scan_again as
\* well.  The names a report yields before it raises have been appended.
ScanClass(st, p) ==
    IF st.aborted \/ st.pluginmap[p] = "absent" THEN st
    ELSE
    LET load  == NeedsLoading(st.pluginmap[p])
        t     == catalog[p]
        lcs   == LoadStateCalls(st.plugins[p])
        lfail == load /\ t.load_fails /\ lcs # <<>>
        s1    == IF load
                 THEN [st EXCEPT
                         !.pluginmap[p] = "instance",
                         !.created = @ \cup {p},
                         !.loaded = @ \o [k \in DOMAIN lcs |->
                                            [plugin |-> p, value |-> lcs[k]]],
                         !.scan_again = IF lfail THEN @ ELSE TRUE,
                         !.last_request = IF lfail THEN @ ELSE st.pass,
                         !.aborted = lfail]
                 ELSE st
        asks  == \/ t.enables \in PluginNames
                 \/ /\ t.requires \in PluginNames
                    /\ s1.pluginmap[t.requires] = "absent"
        whom  == IF t.enables \in PluginNames THEN t.enables ELSE t.requires
        s2    == IF asks
                 THEN [s1 EXCEPT !.pluginmap = SetDefault(@, whom),
                                 !.scan_again = TRUE,
                                 !.last_request = st.pass]
                 ELSE s1
        s3    == IF t.methods_fail
                 THEN [s2 EXCEPT
                         !.watcher_map = AppendTo(@, t.methods_yielded, p),
                         !.aborted = ReportAfter(TRUE) = "abort"]
                 ELSE [s2 EXCEPT !.watcher_map = AppendTo(@, PluginMethods(p), p)]
    IN  IF s1.aborted THEN s1
        ELSE IF s3.aborted THEN s3
        ELSE IF t.commands_fail
        THEN [s3 EXCEPT
                !.command_map = AppendTo(@, t.commands_yielded, p),
                !.aborted = ReportAfter(TRUE) = "abort"]
        ELSE [s3 EXCEPT !.command_map = AppendTo(@, PluginCommands(p), p)]

RECURSIVE ScanClasses(_, _, _)
ScanClasses(st, classes, i) ==
    IF i > Len(classes) THEN st
    ELSE ScanClasses(ScanClass(st, classes[i]), classes, i + 1)

\* One pass of _really_scan_plugins over the classes found, from empty
\* indexes; plugins is state['plugins'], pass the number of the pass and
\* last_request the last pass in which scan_plugins() was called again.
ReallyScan(pm, plugins, pass, last_request) ==
    ScanClasses([pluginmap    |-> pm,
                 plugins      |-> plugins,
                 watcher_map  |-> [e \in EventNames |-> <<>>],
                 command_map  |-> [c \in CommandNames |-> <<>>],
                 scan_again   |-> FALSE,
                 created      |-> {},
                 loaded       |-> <<>>,
                 pass         |-> pass,
                 last_request |-> last_request,
                 aborted      |-> FALSE],
                get_plugin_classes, 1)

\* (This variant makes one pass whatever was asked during it.)
NeverAgain(scan_again) == FALSE

\* `if not self.scan_again: break`
AnotherPass(scan_again) == scan_again

\* The while loop of scan_plugins, entered with scanning_now false: passes
\* until one ends with scan_again false.  A pass that asks for another one
\* and leaves pluginmap as it found it is followed by the same pass over
\* and over: the loop does not end (hung).
RECURSIVE ScanLoop(_, _, _, _, _, _)
ScanLoop(pm, plugins, created, loaded, passes, last_request) ==
    LET r   == ReallyScan(pm, plugins, passes + 1, last_request)
        out == [r EXCEPT !.created = created \cup @,
                         !.loaded = loaded \o @]
                 @@ [passes |-> passes + 1, hung |-> FALSE]
    IN  IF r.aborted \/ ~AnotherPass(r.scan_again) THEN out
        ELSE IF r.pluginmap = pm THEN [out EXCEPT !.hung = TRUE]
        ELSE ScanLoop(r.pluginmap, plugins, out.created, out.loaded,
                      passes + 1, r.last_request)

ScanPlugins(pm, plugins) == ScanLoop(pm, plugins, {}, <<>>, 0, 0)

\* No registry call made yet.
NoRegOp ==
    [kind |-> "none", name |-> "nobody", before |-> "absent", seen |-> <<>>,
     created |-> {},
     loaded |-> <<>>, saved |-> "not_called", passes |-> 0,
     last_request |-> 0, raised |-> FALSE]

\* dict.get(key, ()) on the command index.
CommandMapGet(cm, cmd) == IF cmd \in DOMAIN cm THEN cm[cmd] ELSE <<>>

(***************************************************************************)
(* make_watch_wrapper.  A handler call ends in one of three ways: it       *)
(* returns ("ok"), it raises ("raise"), or it returns a Deferred that has  *)
(* not fired ("pending"); a pending Deferred later fires with a result or  *)
(* with a failure.                                                         *)
(***************************************************************************)
Outcomes == {"ok", "raise", "pending"}

FireResults == {"ok", "fail"}

\* What the wrapper's loop does with the outcome of `yield pluginmethod(..)`
\* inside try/except Exception: it goes on to the next watcher after a
\* return and after an exception (which it logs), and it is suspended by
\* inlineCallbacks while the yielded Deferred has not fired.
NoTryWrapperAfter(out) ==
    CASE out = "ok"      -> "next"
      [] out = "raise"   -> "abort"
      [] out = "pending" -> "wait"

WrapperAfter(out) ==
    CASE out = "ok"      -> "next"
      [] out = "raise"   -> "next"
      [] out = "pending" -> "wait"

\* The loop over watchers from index `from` on, the handler at index i ending
\* as outs[i]: the index of the last handler invoked, how the run ended and
\* the indexes whose handler raised.
RunWatchers(watchers, from, outs) ==
    LET stops == {i \in from..Len(watchers) : WrapperAfter(outs[i]) # "next"}
        last  == IF stops = {} THEN Len(watchers)
                 ELSE CHOOSE i \in stops : \A j \in stops : i <= j
    IN  [idx    |-> last,
         st     |-> IF stops = {} THEN "returned"
                    ELSE IF WrapperAfter(outs[last]) = "wait" THEN "suspended"
                    ELSE "failed",
         raised |-> {i \in from..last : outs[i] = "raise"}]

\* The handler invocations of such a run, in order, for occurrence o.
CallsOf(o, ev, watchers, from, last) ==
    [k \in 1..(last - from + 1) |->
        [occ |-> o, plugin |-> watchers[from + k - 1], what |-> ev]]

\* maybeDeferred(pluginmethod, ...) with an errback that logs: whatever the
\* handler does (return, raise, pending Deferred), dispatch_command's loop
\* goes on to the next handler.
NoMaybeDeferredAfter(out) == IF out = "raise" THEN "abort" ELSE "next"

CommandAfter(out) == "next"

\* dispatch_command's loop over the handlers h, handler i ending as outs[i]:
\* how many were invoked and whether an exception left the loop.
RunHandlers(h, outs) ==
    LET stops == {i \in 1..Len(h) : CommandAfter(outs[i]) = "abort"}
    IN  [n      |-> IF stops = {} THEN Len(h)
                    ELSE CHOOSE i \in stops : \A j \in stops : i <= j,
         failed |-> stops # {}]

\* dispatch_command, line 263: the fallback reply is due when dlist is empty,
\* that is when no handler was called, however the handlers called ended.
FallbackWhenNoneSucceeded(n, outs) == \A i \in 1..n : outs[i] = "raise"

NeedsFallback(n, outs) == n = 0

\* The plugins dispatch_command calls for the (case-folded) name cmd: those
\* of command_map.get(cmd, ()) on which getattr finds the method.
Handlers(cm, cmd) ==
    SelectSeq(CommandMapGet(cm, cmd), LAMBDA p : HasCommandMethod(p, cmd))

\* The record of one call of a wrapped callback.  rest: the self.msg calls
\* address_msg still has to make once this wrapper's Deferred has fired.
WrapperRec(ev, watchers, r, rest) ==
    [ev |-> ev, watchers |-> watchers, idx |-> r.idx, st |-> r.st,
     raised |-> r.raised, rest |-> rest]

\* address_msg's loop from its k-th self.msg call on.  Each call runs the
\* wrapper of msg: the line is sent, then the watchers w of msg are called
\* (handler i of the j-th call ending as mouts[j][i]); address_msg goes on
\* when the wrapper has run through and is suspended with it otherwise.
\* o0 + j is the occurrence number of the j-th call.
RECURSIVE SendChain(_, _, _, _, _)
SendChain(sends, w, mouts, k, o0) ==
    LET r    == RunWatchers(w, 1, mouts[k])
        more == r.st = "returned" /\ k < Len(sends)
        rec  == WrapperRec("msg", w, r,
                    IF r.st = "suspended"
                    THEN SubSeq(sends, k + 1, Len(sends)) ELSE <<>>)
        tl   == IF more THEN SendChain(sends, w, mouts, k + 1, o0)
                ELSE [occs |-> <<>>, calls |-> <<>>, sent |-> <<>>]
    IN  [occs  |-> <<rec>> \o tl.occs,
         calls |-> CallsOf(o0 + k, "msg", w, 1, r.idx) \o tl.calls,
         sent  |-> <<sends[k]>> \o tl.sent]

NoChain == [occs |-> <<>>, calls |-> <<>>, sent |-> <<>>]

\* The ways address_msg's self.msg calls for `sends` can go.
Chains(sends, w, o0) ==
    IF sends = <<>> THEN {NoChain}
    ELSE {SendChain(sends, w, mouts, 1, o0) :
             mouts \in [1..Len(sends) -> [1..Len(w) -> Outcomes]]}

(***************************************************************************)
(* Inputs of the model.                                                    *)
(***************************************************************************)
Users == {<<"u">>, <<"u", "!", "h">>}

Channels == {Nick, <<"#">>}

MsgChars == {"a", "A", "n", ":", " ", "\""}

Messages == SeqsUpTo(MsgChars, MaxMsgLen) \ {<<>>}

CmdChars == {"a", "A", ":", " "}

CmdMessages == SeqsUpTo(CmdChars, MaxCmdLen) \ {<<>>}

ReplyTexts == SeqsUpTo({"x", "\n"}, MaxReplyLen)

\* state['cmd_prefix']: None, or the prefix a snapshot restored.
Prefixes == {<<>>, <<(<<":">>)>>}

vars == <<mm_mask, mm_user, mm_called, mm_result, memberships, auth_call,
          pluginmap, watcher_map, command_map, state_plugins, catalog,
          discoverable, hung, reg_op, cmd_prefix, op, dispatched,
          cmdcalls, sent, occs, calls, state_ident, statefile, life, conns,
          prot, delay, admin_call, channel_memberships, member_call>>

persistVars == <<state_ident, statefile, life>>

sessionVars == <<conns, prot, delay>>

memberVars == <<channel_memberships, member_call>>

lifeVars == <<persistVars, sessionVars, admin_call, memberVars>>

maskVars == <<mm_mask, mm_user, mm_called, mm_result>>

authVars == <<memberships, auth_call>>

registryVars == <<pluginmap, watcher_map, command_map, state_plugins, catalog,
                  discoverable, hung>>

logVars == <<op, dispatched, cmdcalls, sent, occs, calls>>

NoOp == [kind |-> "none", user |-> <<>>, channel |-> <<>>, text |-> <<>>]

\* CassBotService.__init__: state holds the nickname and the channels the
\* service was made with, and no cmd_prefix.
ServiceState(nickname, init_channels) ==
    [nickname |-> nickname, channels |-> init_channels, cmd_prefix |-> <<>>]

\* No state file on disk.
NoFile ==
    [kind |-> "absent",
     ident |-> ServiceState("cassbot", <<>>),
     plugins |-> [p \in PluginNames |-> "None"],
     plugins_enabled |-> {},
     auth_map |-> [n \in PrivNames |-> NoMembers],
     from |-> [enabled |-> {}, ident |-> ServiceState("cassbot", <<>>),
               holders |-> [n \in PrivNames |-> {}]]]

\* Neither saveStateToFile nor startService called yet.
NoLife ==
    [kind |-> "none", started |-> FALSE, fresh |-> FALSE, steps |-> <<>>,
     raised |-> "none", caught |-> "none", completed |-> FALSE,
     created |-> {}, loaded |-> <<>>]

NoAdminCall ==
    [cmd |-> "none", who |-> <<>>, arg |-> "none", allowed |-> FALSE,
     loadable |-> FALSE, reply |-> "none", raised |-> "none",
     created |-> {}, saved |-> "not_called"]

\* The channels and the users the membership callbacks are called with, and
\* the quit messages.
MemberChannels == {"#c", "#d"}

Nicks == {"u", "v"}

QuitMessages == {"bye"}

\* What can be a key of channel_memberships.
MemberKeys == MemberChannels \cup QuitMessages

NoMemberCall ==
    [kind |-> "none", user |-> "none", channel |-> "none", other |-> "none",
     raised |-> "none"]

\* CassBotCore.__init__: self.channel_memberships = {}
InitMembers ==
    /\ channel_memberships = [k \in MemberKeys |-> [has |-> FALSE, users |-> {}]]
    /\ member_call = NoMemberCall

\* The service as constructed, no state file, no connection made.
InitLife ==
    /\ state_ident = ServiceState("cassbot", <<>>)
    /\ statefile = NoFile
    /\ life = NoLife
    /\ conns = <<>>
    /\ prot = 0
    /\ delay = 0
    /\ admin_call = NoAdminCall
    /\ InitMembers

\* The service and the session as constructed.
InitRegistry ==
    /\ pluginmap = [p \in PluginNames |-> "absent"]
    /\ watcher_map = [e \in EventNames |-> <<>>]
    /\ command_map = [c \in CommandNames |-> <<>>]
    /\ state_plugins = [p \in PluginNames |-> "None"]
    /\ hung = FALSE
    /\ reg_op = NoRegOp
    /\ catalog = PlainCatalog
    /\ discoverable = PluginNames

InitLogs ==
    /\ op = NoOp
    /\ dispatched = <<>>
    /\ cmdcalls = <<>>
    /\ sent = <<>>
    /\ occs = <<>>
    /\ calls = <<>>

NoAuthCall ==
    [kind |-> "none", who |-> <<>>, priv |-> <<>>,
     value |-> FALSE, raised |-> FALSE, deep |-> FALSE]

\* AuthMap.__init__
InitAuth ==
    /\ memberships = [n \in PrivNames |-> NoMembers]
    /\ auth_call = NoAuthCall

NoMaskCall ==
    /\ mm_mask = <<>>
    /\ mm_user = <<>>
    /\ mm_called = FALSE
    /\ mm_result = FALSE

Init ==
    NoMaskCall /\ InitAuth /\ InitRegistry /\ InitLogs /\ cmd_prefix = <<>>
    /\ InitLife

\* A session whose cmd_prefix initialize_proto_state took from the state.
InitCmd ==
    NoMaskCall /\ InitAuth /\ InitRegistry /\ InitLogs /\ cmd_prefix \in Prefixes
    /\ InitLife

InitMask ==
    /\ mm_mask \in Masks
    /\ mm_user \in Principals
    /\ mm_called = FALSE
    /\ mm_result = FALSE
    /\ InitAuth
    /\ InitRegistry
    /\ InitLogs
    /\ cmd_prefix = <<>>
    /\ InitLife

CallMaskMatches ==
    /\ ~mm_called
    /\ mm_called' = TRUE
    /\ mm_result' = mask_matches(mm_mask, mm_user)
    /\ UNCHANGED <<mm_mask, mm_user, authVars, registryVars, reg_op, cmd_prefix, lifeVars, logVars>>

(***************************************************************************)
(* AuthMap operations.                                                     *)
(***************************************************************************)
\* addPriv: memberships.setdefault(privname, set()).add(mask).  An entry
\* that removePriv has rewritten is a list, which has no add: the call
\* raises AttributeError and the entry stays as it is.
addPriv(mask, privname) ==
    LET e == memberships[privname]
    IN  /\ Entries(memberships, PrivNames) < MaxGrants
        /\ memberships' =
              IF e.kind = "list" THEN memberships
              ELSE [memberships EXCEPT ![privname] =
                        [kind |-> "set", members |-> e.members \cup {mask}]]
        /\ auth_call' = [kind |-> "addPriv", who |-> mask, priv |-> privname,
                         value |-> FALSE, raised |-> e.kind = "list",
                         deep |-> FALSE]
        /\ UNCHANGED <<maskVars, registryVars, reg_op, cmd_prefix, lifeVars, logVars>>

\* removePriv: the entry becomes the list of the holders other than mask.
removePriv(mask, privname) ==
    /\ memberships' = [memberships EXCEPT ![privname] =
                          [kind |-> "list",
                           members |-> whoHas(memberships, privname) \ {mask}]]
    /\ auth_call' = [kind |-> "removePriv", who |-> mask, priv |-> privname,
                     value |-> FALSE, raised |-> FALSE, deep |-> FALSE]
    /\ UNCHANGED <<maskVars, registryVars, reg_op, cmd_prefix, lifeVars, logVars>>

\* userHas(user, privname) with the default skip=set().
CallUserHas(user, privname) ==
    LET r == userHas(memberships, user, privname, {}, 0)
    IN  /\ auth_call' = [kind |-> "userHas", who |-> user, priv |-> privname,
                         value |-> r.value, raised |-> FALSE, deep |-> r.deep]
        /\ UNCHANGED <<memberships, maskVars, registryVars, reg_op, cmd_prefix, lifeVars,
                       logVars>>

(***************************************************************************)
(* op, dispatched, cmdcalls, sent, occs and calls are logs: they record    *)
(* what the session did and take no part in what it does next.  Once no    *)
(* wrapper is suspended they can be dropped (Forget).  A privmsg or        *)
(* address_msg call is observed from empty logs; a registry operation or   *)
(* an event is observed from empty logs or while a wrapper is suspended,   *)
(* the logs of a finished period being dropped first.                      *)
(***************************************************************************)
Idle == \A o \in DOMAIN occs : occs[o].st # "suspended"

\* The reactor is not held in a scan that does not end.
Running == ~hung

FreshLogs == op = NoOp /\ occs = <<>> /\ Running

Observed == (FreshLogs \/ ~Idle) /\ Running

Forget ==
    /\ Idle
    /\ Running
    /\ ~FreshLogs
    /\ op' = NoOp
    /\ dispatched' = <<>>
    /\ cmdcalls' = <<>>
    /\ sent' = <<>>
    /\ occs' = <<>>
    /\ calls' = <<>>
    /\ reg_op' = NoRegOp
    /\ UNCHANGED <<maskVars, authVars, registryVars, cmd_prefix, lifeVars>>

(***************************************************************************)
(* Registry operations.                                                    *)
(***************************************************************************)
SetRegistry(r) ==
    /\ pluginmap' = r.pluginmap
    /\ watcher_map' = r.watcher_map
    /\ command_map' = r.command_map
    /\ hung' = r.hung

\* What a registry call did, given the scan r it ended with.  The call is
\* recorded when it is made from empty logs.
RegOp(kind, pname, r, saved) ==
    IF ~FreshLogs THEN NoRegOp ELSE
    [kind |-> kind, name |-> pname,
     before |-> IF pname \in PluginNames THEN pluginmap[pname] ELSE "absent",
     seen |-> get_plugin_classes,
     created |-> r.created, loaded |-> r.loaded, saved |-> saved,
     passes |-> r.passes, last_request |-> r.last_request,
     raised |-> r.aborted]

\* enable_plugin_by_name: pluginmap.setdefault(pname, enabled_but_not_found),
\* then scan_plugins().
enable_plugin_by_name(pname) ==
    /\ Observed
    /\ LET r == ScanPlugins(SetDefault(pluginmap, pname), state_plugins)
       IN  /\ SetRegistry(r)
           /\ reg_op' = RegOp("enable", pname, r, "not_called")
    /\ UNCHANGED <<state_plugins, catalog, discoverable, maskVars, authVars,
                   cmd_prefix, lifeVars, logVars>>

\* disable_plugin: pop the entry; the state of an instance is saved (or its
\* saved state dropped when saveState() returns None); then scan_plugins().
disable_plugin(pname) ==
    /\ Observed
    /\ \E v \in SaveStates(pname) :
         LET saving  == pluginmap[pname] = "instance"
             plugins == IF saving THEN [state_plugins EXCEPT ![pname] = v]
                        ELSE state_plugins
             r == ScanPlugins([pluginmap EXCEPT ![pname] = "absent"], plugins)
         IN  /\ state_plugins' = plugins
             /\ SetRegistry(r)
             /\ reg_op' = RegOp("disable", pname, r,
                                IF saving THEN v ELSE "not_called")
    /\ UNCHANGED <<catalog, discoverable, maskVars, authVars, cmd_prefix, lifeVars, logVars>>

\* scan_plugins(), as a plugin or an operator asks for it.
scan_plugins ==
    /\ Observed
    /\ LET r == ScanPlugins(pluginmap, state_plugins)
       IN  /\ SetRegistry(r)
           /\ reg_op' = RegOp("scan", "nobody", r, "not_called")
    /\ UNCHANGED <<state_plugins, catalog, discoverable, maskVars, authVars,
                   cmd_prefix, lifeVars, logVars>>

\* The implementation of a plugin class appears in the plugin package, or
\* goes from it.
Discover(p) ==
    /\ Running
    /\ p \notin discoverable
    /\ discoverable' = discoverable \cup {p}
    /\ reg_op' = NoRegOp
    /\ UNCHANGED <<pluginmap, watcher_map, command_map, state_plugins, catalog,
                   hung, maskVars, authVars, cmd_prefix, lifeVars, logVars>>

Vanish(p) ==
    /\ Running
    /\ p \in discoverable
    /\ discoverable' = discoverable \ {p}
    /\ reg_op' = NoRegOp
    /\ UNCHANGED <<pluginmap, watcher_map, command_map, state_plugins, catalog,
                   hung, maskVars, authVars, cmd_prefix, lifeVars, logVars>>

(***************************************************************************)
(* Persistence: saveStateToFile, loadStateFromFile, startService.          *)
(***************************************************************************)
\* (This variant records the names that have an instance only.)
LoadedKeys(pm) == {p \in PluginNames : pm[p] = "instance"}

\* pluginmap.keys()
Keys(pm) == {p \in PluginNames : pm[p] # "absent"}

\* The orders in which a dict or a pickled list can hand out the names S.
Orders(S) ==
    {o \in [1..Cardinality(S) -> S] : \A i, j \in DOMAIN o : o[i] = o[j] => i = j}

\* The registry before a run of registry calls, and after one more call that
\* ended with the scan r.
Before(pm, plugins) ==
    [pluginmap |-> pm, plugins |-> plugins, watcher_map |-> watcher_map,
     command_map |-> command_map, created |-> {}, loaded |-> <<>>,
     aborted |-> FALSE, hung |-> FALSE, done |-> 0]

After(st, r) ==
    [pluginmap |-> r.pluginmap, plugins |-> r.plugins,
     watcher_map |-> r.watcher_map, command_map |-> r.command_map,
     created |-> st.created \cup r.created, loaded |-> st.loaded \o r.loaded,
     aborted |-> r.aborted, hung |-> r.hung, done |-> st.done + 1]

\* disable_plugin on the registry st, saveState() returning v.
Disable(st, pname, v) ==
    LET saving == st.pluginmap[pname] = "instance"
    IN  After(st, ScanPlugins([st.pluginmap EXCEPT ![pname] = "absent"],
                              IF saving THEN [st.plugins EXCEPT ![pname] = v]
                              ELSE st.plugins))

\* saveStateToFile's loop: disable_plugin for each recorded name; a call
\* that does not return or that raises ends it.
RECURSIVE DisableEach(_, _, _, _)
DisableEach(st, order, vals, i) ==
    IF i > Len(order) \/ st.hung \/ st.aborted THEN st
    ELSE DisableEach(Disable(st, order[i], vals[order[i]]), order, vals, i + 1)

\* enable_plugin_by_name on the registry st.
Enable(st, pname) ==
    After(st, ScanPlugins(SetDefault(st.pluginmap, pname), st.plugins))

\* loadStateFromFile's loop goes on to the next name when the call returned.
EnableNext(st) == ~st.hung /\ ~st.aborted

\* loadStateFromFile's loop: enable_plugin_by_name for each persisted name.
RECURSIVE EnableEach(_, _, _)
EnableEach(st, order, i) ==
    IF i > Len(order) \/ ~EnableNext(st) THEN st
    ELSE EnableEach(Enable(st, order[i]), order, i + 1)

\* What a state file can hold besides a snapshot, and the exceptions open()
\* and pickle.load() can end with on it: IOError when there is no file (or
\* none that can be read), EOFError when the content ends early, and on
\* other content whatever the opcodes met lead to.
FileKinds == {"absent", "truncated", "garbage", "valid"}

DecodeErrors(kind) ==
    CASE kind = "absent"    -> {"IOError"}
      [] kind = "truncated" -> {"EOFError"}
      [] kind = "garbage"   -> {"ValueError", "KeyError", "UnpicklingError"}
      [] kind = "valid"     -> {"none"}

\* The exceptions a plugin's loadState() can raise.
PluginErrors == {"ValueError", "RuntimeError"}

\* startService: `except (IOError, ValueError): pass`
Caught(exc) == exc \in {"IOError", "ValueError"}

\* startService calls endpoint.connect(...), then loadStateFromFile(...).
StartSteps == <<"connect", "load">>

\* saveStateToFile: the names in pluginmap are recorded and disabled, each
\* instance's state being saved on the way; the holders are recorded; the
\* state is written.  Nothing is written when a disable_plugin call does
\* not return.
saveStateToFile ==
    /\ FreshLogs
    /\ \E order \in Orders(Keys(pluginmap)),
          vals \in [PluginNames -> SaveValues] :
         /\ \A p \in PluginNames : vals[p] \in SaveStates(p)
         /\ LET r == DisableEach(Before(pluginmap, state_plugins), order, vals, 1)
                written == ~r.hung /\ ~r.aborted
            IN  /\ SetRegistry(r)
                /\ state_plugins' = r.plugins
                /\ statefile' =
                      IF written
                      THEN [kind |-> "valid",
                            ident |-> state_ident,
                            plugins |-> r.plugins,
                            plugins_enabled |-> Keys(pluginmap),
                            auth_map |-> memberships,
                            from |-> [enabled |-> {p \in PluginNames :
                                                     pluginmap[p] # "absent"},
                                      ident |-> state_ident,
                                      holders |-> [n \in PrivNames |->
                                                     whoHas(memberships, n)]]]
                      ELSE statefile
                /\ life' = [NoLife EXCEPT !.kind = "save",
                                          !.started = life.started,
                                          !.completed = written]
    /\ reg_op' = NoRegOp
    /\ UNCHANGED <<state_ident, sessionVars, admin_call, memberVars, catalog, discoverable,
                   maskVars, authVars, cmd_prefix, logVars>>

\* The state file is removed, cut short or overwritten from outside.
Damage(kind) ==
    /\ FreshLogs
    /\ kind # "valid"
    /\ statefile.kind # kind
    /\ statefile' = [NoFile EXCEPT !.kind = kind]
    /\ reg_op' = NoRegOp
    /\ UNCHANGED <<state_ident, life, sessionVars, admin_call, memberVars, registryVars,
                   maskVars, authVars, cmd_prefix, logVars>>

\* A new process: CassBotService.__init__ and AuthMap.__init__.
NewService(nickname, init_channels) ==
    /\ FreshLogs
    /\ life.kind # "none"
    /\ state_ident' = ServiceState(nickname, init_channels)
    /\ pluginmap' = [p \in PluginNames |-> "absent"]
    /\ watcher_map' = [e \in EventNames |-> <<>>]
    /\ command_map' = [c \in CommandNames |-> <<>>]
    /\ state_plugins' = [p \in PluginNames |-> "None"]
    /\ memberships' = [n \in PrivNames |-> NoMembers]
    /\ auth_call' = NoAuthCall
    /\ life' = NoLife
    /\ conns' = <<>>
    /\ prot' = 0
    /\ delay' = 0
    /\ reg_op' = NoRegOp
    /\ UNCHANGED <<statefile, admin_call, memberVars, catalog, discoverable, hung, maskVars,
                   cmd_prefix, logVars>>

\* The registry, the saved plugin states, the holders and cmd_prefix are as
\* CassBotService.__init__ leaves them.
AsConstructed ==
    /\ \A p \in PluginNames : pluginmap[p] = "absent" /\ state_plugins[p] = "None"
    /\ \A n \in PrivNames : memberships[n] = NoMembers
    /\ state_ident.cmd_prefix = <<>>

\* startService: the connection attempt is started, then the state file is
\* loaded: the state is replaced by the one read, the holders by the ones
\* read, and each persisted name is enabled.  An exception that is not
\* caught leaves startService.
startService ==
    /\ FreshLogs
    /\ ~life.started
    /\ Len(conns) < MaxConns
    /\ \E exc \in DecodeErrors(statefile.kind),
          order \in Orders(statefile.plugins_enabled) :
         LET decoded == exc = "none"
             st0 == Before(pluginmap,
                           IF decoded THEN statefile.plugins ELSE state_plugins)
             r   == IF decoded THEN EnableEach(st0, order, 1) ELSE st0
         IN
         \E perr \in IF r.aborted THEN PluginErrors ELSE {"none"} :
         LET err == IF decoded THEN perr ELSE exc
             out == IF Caught(err) THEN "none" ELSE err
             k   == CHOOSE i \in DOMAIN StartSteps : StartSteps[i] = "load"
         IN  /\ SetRegistry(r)
             /\ state_plugins' = r.plugins
             /\ state_ident' = IF decoded THEN statefile.ident ELSE state_ident
             /\ memberships' = IF decoded THEN statefile.auth_map ELSE memberships
             /\ life' = [kind |-> "start", started |-> TRUE,
                         fresh |-> AsConstructed,
                         steps |-> IF out = "none" THEN StartSteps
                                   ELSE SubSeq(StartSteps, 1, k),
                         raised |-> out,
                         caught |-> IF Caught(err) THEN err ELSE "none",
                         completed |-> decoded /\ ~r.hung /\ ~r.aborted,
                         created |-> r.created, loaded |-> r.loaded]
             /\ conns' = IF out = "none" \/ k > 1
                         THEN Append(conns, "connecting") ELSE conns
    /\ reg_op' = NoRegOp
    /\ UNCHANGED <<statefile, prot, delay, admin_call, memberVars, catalog, discoverable,
                   maskVars, auth_call, cmd_prefix, logVars>>

(***************************************************************************)
(* Connections.  A connection attempt is started (endpoint.connect), the   *)
(* factory builds its protocol, the protocol signs on, the connection is   *)
(* lost; an attempt can fail as well.  The factory's retry() makes the     *)
(* backoff grow.                                                           *)
(***************************************************************************)
OtherVars == <<maskVars, authVars, registryVars, cmd_prefix, persistVars,
               admin_call, memberVars, logVars>>

\* endpoint.connect(self.pfactory)
Connect ==
    /\ Len(conns) < MaxConns
    /\ conns' = Append(conns, "connecting")
    /\ reg_op' = NoRegOp
    /\ UNCHANGED <<prot, delay, OtherVars>>

\* CassBotFactory.buildProtocol: a protocol that has not signed on.
buildProtocol(c) ==
    /\ conns[c] = "connecting"
    /\ conns' = [conns EXCEPT ![c] = "connected"]
    /\ reg_op' = NoRegOp
    /\ UNCHANGED <<prot, delay, OtherVars>>

\* The attempt fails, or the factory is told of a lost connection: retry().
Retry(c) ==
    /\ conns[c] \in {"connecting", "lost"}
    /\ conns' = [conns EXCEPT ![c] = IF @ = "lost" THEN "gone" ELSE "failed"]
    /\ delay' = IF delay < MaxDelay THEN delay + 1 ELSE delay
    /\ reg_op' = NoRegOp
    /\ UNCHANGED <<prot, OtherVars>>

\* signedOn: self.factory.prot = self; self.factory.resetDelay(); ...;
\* self.is_signed_on = True
signedOn(c) ==
    /\ conns[c] = "connected"
    /\ conns' = [conns EXCEPT ![c] = "signed_on"]
    /\ prot' = c
    /\ delay' = 0
    /\ reg_op' = NoRegOp
    /\ UNCHANGED OtherVars

\* (This variant leaves factory.prot as it is.)
ProtKept(p) == p

\* `del self.factory.prot`, whichever connection it names; without the
\* attribute the AttributeError is passed over.
ProtDeleted(p) == 0

\* connectionLost: self.is_signed_on = False, factory.prot deleted.
connectionLost(c) ==
    /\ conns[c] \in {"connected", "signed_on"}
    /\ conns' = [conns EXCEPT ![c] = "lost"]
    /\ prot' = ProtDeleted(prot)
    /\ reg_op' = NoRegOp
    /\ UNCHANGED <<delay, OtherVars>>

(***************************************************************************)
(* Channel memberships of one session.  The callbacks are called by the    *)
(* protocol as userJoined(user, channel), userLeft(user, channel),         *)
(* userQuit(user, quitMessage), userKicked(kickee, channel, kicker,        *)
(* message), userRenamed(oldname, newname) and left(channel).              *)
(***************************************************************************)
\* dict.setdefault(key, set())
SetDefaultSet(cm, key) ==
    IF cm[key].has THEN cm ELSE [cm EXCEPT ![key] = [has |-> TRUE, users |-> {}]]

\* The body of userLeft: setdefault(channel, set()).discard(user)
Discard(cm, user, key) ==
    [SetDefaultSet(cm, key) EXCEPT ![key].users = @ \ {user}]

\* The body of userRenamed: in every set that holds oldname, newname is
\* added and oldname removed.
Rename(cm, oldname, newname) ==
    [k \in DOMAIN cm |->
        IF oldname \in cm[k].users
        THEN [cm[k] EXCEPT !.users = (@ \cup {newname}) \ {oldname}]
        ELSE cm[k]]

MemberFrame ==
    /\ reg_op' = NoRegOp
    /\ UNCHANGED <<maskVars, authVars, registryVars, cmd_prefix, persistVars,
                   sessionVars, admin_call, logVars>>

\* userJoined: setdefault(channel, set()).add(user)
userJoined(user, channel) ==
    /\ channel_memberships' =
          [SetDefaultSet(channel_memberships, channel)
              EXCEPT ![channel].users = @ \cup {user}]
    /\ member_call' = [NoMemberCall EXCEPT !.kind = "userJoined",
                                           !.user = user, !.channel = channel]
    /\ MemberFrame

userLeft(user, channel) ==
    /\ channel_memberships' = Discard(channel_memberships, user, channel)
    /\ member_call' = [NoMemberCall EXCEPT !.kind = "userLeft",
                                           !.user = user, !.channel = channel]
    /\ MemberFrame

\* userQuit = userLeft: the quit message arrives as userLeft's channel.
userQuit(user, quitMessage) ==
    /\ channel_memberships' = Discard(channel_memberships, user, quitMessage)
    /\ member_call' = [NoMemberCall EXCEPT !.kind = "userQuit",
                                           !.user = user, !.other = quitMessage]
    /\ MemberFrame

\* userKicked = userLeft: called with four arguments, the function takes
\* two, so the call raises TypeError before its body runs.
userKicked(kickee, channel, kicker, message) ==
    /\ channel_memberships' = channel_memberships
    /\ member_call' = [NoMemberCall EXCEPT !.kind = "userKicked",
                                           !.user = kickee, !.channel = channel,
                                           !.other = kicker,
                                           !.raised = "TypeError"]
    /\ MemberFrame

userRenamed(oldname, newname) ==
    /\ channel_memberships' = Rename(channel_memberships, oldname, newname)
    /\ member_call' = [NoMemberCall EXCEPT !.kind = "userRenamed",
                                           !.user = oldname, !.other = newname]
    /\ MemberFrame

\* left -> leave_channel: removekey(self.channel_memberships, channel)
left(channel) ==
    /\ channel_memberships' =
          [channel_memberships EXCEPT ![channel] = [has |-> FALSE, users |-> {}]]
    /\ member_call' = [NoMemberCall EXCEPT !.kind = "left", !.channel = channel]
    /\ MemberFrame

(***************************************************************************)
(* The Admin plugin's commands modenable, moddisable and modreload, each   *)
(* called with one module name or with no argument ("none").  They are     *)
(* declared under require_priv('admin').                                   *)
(***************************************************************************)
AdminPriv == <<"a">>

AdminCmds == {"modenable", "moddisable", "modreload"}

AdminArgs == {"none", "P1", "P3"}

\* require_priv(privname): the handler is called for a user who has the
\* privilege; any other user is sent a denial and the handler is not called.
RequirePriv(mem, user, privname) == userHas(mem, user, privname, {}, 0).value

\* do_mod_enable: enable_plugin_by_name is called and returns None, and the
\* test `d.called` on it raises AttributeError.
do_mod_enable(st, modname) ==
    [st |-> Enable(st, modname), reply |-> "none", raised |-> "AttributeError"]

\* command_moddisable, for one argument.
ModDisable(st, arg, v) ==
    IF st.pluginmap[arg] = "absent"
    THEN [st |-> st, reply |-> "not_loaded", raised |-> "none"]
    ELSE [st |-> Disable(st, arg, v), reply |-> "disabled", raised |-> "none"]

\* do_mod_reload: its first statement reads `arg`, a name that is not
\* defined there: NameError, whether or not the module would load.
do_mod_reload(st, modname, loadable) ==
    [st |-> st, reply |-> "none", raised |-> "NameError"]

\* A command of the Admin plugin, as dispatch_command calls it.  A reply is
\* handed to bot.address_msg; an exception ends the handler's Deferred as a
\* failure, which dispatch_command logs.
AdminCommand(cmd, user, arg, loadable) ==
    /\ FreshLogs
    /\ \E v \in IF arg \in PluginNames THEN SaveStates(arg) ELSE {"None"} :
         LET allowed == RequirePriv(memberships, user, AdminPriv)
             st0 == Before(pluginmap, state_plugins)
             res == CASE ~allowed ->
                           [st |-> st0, reply |-> "denied", raised |-> "none"]
                      [] allowed /\ arg = "none" ->
                           [st |-> st0, reply |-> "usage", raised |-> "none"]
                      [] allowed /\ arg # "none" /\ cmd = "modenable" ->
                           do_mod_enable(st0, arg)
                      [] allowed /\ arg # "none" /\ cmd = "moddisable" ->
                           ModDisable(st0, arg, v)
                      [] allowed /\ arg # "none" /\ cmd = "modreload" ->
                           do_mod_reload(st0, arg, loadable)
         IN  /\ SetRegistry(res.st)
             /\ state_plugins' = res.st.plugins
             /\ admin_call' =
                   [cmd |-> cmd, who |-> user, arg |-> arg, allowed |-> allowed,
                    loadable |-> loadable, reply |-> res.reply,
                    raised |-> res.raised, created |-> res.st.created,
                    saved |-> IF res.reply = "disabled"
                                 /\ pluginmap[arg] = "instance"
                              THEN v ELSE "not_called"]
    /\ reg_op' = NoRegOp
    /\ UNCHANGED <<catalog, discoverable, maskVars, authVars, cmd_prefix,
                   persistVars, sessionVars, memberVars, logVars>>

(***************************************************************************)
(* Wrapped callbacks.                                                      *)
(***************************************************************************)
\* The wrapper of an event whose default handling does nothing: the
\* watchers are read from the index, then called in order.
Event(ev) ==
    LET watchers == watcher_map[ev]
        o        == Len(occs) + 1
    IN  /\ Observed
        /\ Len(occs) < MaxOcc
        /\ \E outs \in [1..Len(watchers) -> Outcomes] :
             LET r == RunWatchers(watchers, 1, outs)
             IN  /\ occs' = Append(occs, WrapperRec(ev, watchers, r, <<>>))
                 /\ calls' = calls \o CallsOf(o, ev, watchers, 1, r.idx)
        /\ reg_op' = NoRegOp
        /\ UNCHANGED <<maskVars, authVars, registryVars, cmd_prefix, lifeVars, op, dispatched,
                       cmdcalls, sent>>

\* The Deferred a suspended wrapper waits for fires: a failure is raised at
\* the yield, inside the try; the loop then goes on.  When the wrapper of a
\* msg call has run through, the address_msg waiting for it goes on.
Fire(o, res) ==
    /\ Running
    /\ o \in DOMAIN occs
    /\ occs[o].st = "suspended"
    /\ LET w    == occs[o].watchers
           i    == occs[o].idx
           here == IF res = "fail" THEN "raise" ELSE "ok"
       IN  \E outs0 \in [(i + 1)..Len(w) -> Outcomes] :
             LET outs == [j \in i..Len(w) |-> IF j = i THEN here ELSE outs0[j]]
                 r    == RunWatchers(w, i, outs)
                 todo == IF r.st = "returned" THEN occs[o].rest ELSE <<>>
             IN  \E ch \in Chains(todo, watcher_map["msg"], Len(occs)) :
                    /\ occs' = [occs EXCEPT ![o] =
                                  [@ EXCEPT !.idx = r.idx, !.st = r.st,
                                            !.raised = @ \cup r.raised,
                                            !.rest = IF r.st = "suspended"
                                                     THEN @ ELSE <<>>]]
                               \o ch.occs
                    /\ calls' = calls \o CallsOf(o, occs[o].ev, w, i + 1, r.idx)
                                      \o ch.calls
                    /\ sent' = sent \o ch.sent
    /\ reg_op' = NoRegOp
    /\ UNCHANGED <<maskVars, authVars, registryVars, cmd_prefix, lifeVars, op, dispatched,
                   cmdcalls>>

\* address_msg(user, channel, msg), as a plugin's handler calls it.
AddressMsg(user, channel, msg) ==
    /\ FreshLogs
    /\ op' = [kind |-> "address_msg", user |-> user, channel |-> channel,
              text |-> msg]
    /\ dispatched' = <<>>
    /\ cmdcalls' = <<>>
    /\ \E ch \in Chains(AddressedSends(user, channel, msg), watcher_map["msg"], 0) :
          /\ occs' = ch.occs
          /\ calls' = ch.calls
          /\ sent' = ch.sent
    /\ reg_op' = NoRegOp
    /\ UNCHANGED <<maskVars, authVars, registryVars, cmd_prefix, lifeVars>>

\* The wrapper of privmsg raised by its default handling: the exception
\* leaves the generator before any watcher is read.
RaisedRec ==
    [ev |-> "privmsg", watchers |-> <<>>, idx |-> 0, st |-> "realmethod_raised",
     raised |-> {}, rest |-> <<>>]

\* The wrapped privmsg(user, channel, message): the default handling
\* (privmsg, dispatch_command, command_not_found, address_msg), then the
\* watchers of privmsg.  Occurrence 1 is the privmsg call; the msg calls of
\* a fallback reply follow it.
Privmsg(user, channel, message) ==
    /\ FreshLogs
    /\ op' = [kind |-> "privmsg", user |-> user, channel |-> channel,
              text |-> message]
    /\ LET pr  == ParsePrivmsg(channel, message, cmd_prefix)
           cmd == Lower(pr.cmd)
           h   == IF pr.act = "dispatch" THEN Handlers(command_map, cmd) ELSE <<>>
           w   == watcher_map["privmsg"]
       IN  \E houts \in [1..Len(h) -> Outcomes] :
             LET rh == RunHandlers(h, houts)
                 fallback == /\ pr.act = "dispatch"
                             /\ ~rh.failed
                             /\ NeedsFallback(rh.n, houts)
                 sends == IF fallback
                          THEN AddressedSends(user, channel, NotFoundText(cmd))
                          ELSE <<>>
             IN  /\ dispatched' =
                       IF pr.act = "dispatch"
                       THEN <<[user |-> user, channel |-> channel, cmd |-> pr.cmd,
                               args |-> pr.args, index |-> command_map]>>
                       ELSE <<>>
                 /\ cmdcalls' = [k \in 1..rh.n |->
                                   [plugin |-> h[k], cmd |-> cmd, user |-> user,
                                    channel |-> channel, args |-> pr.args,
                                    out |-> houts[k]]]
                 /\ \E ch \in Chains(sends, watcher_map["msg"], 1) :
                       /\ sent' = ch.sent
                       /\ IF pr.act = "raise" \/ rh.failed
                          THEN /\ occs' = <<RaisedRec>>
                               /\ calls' = <<>>
                          ELSE \E outs \in [1..Len(w) -> Outcomes] :
                                 LET r == RunWatchers(w, 1, outs)
                                 IN  /\ occs' = <<WrapperRec("privmsg", w, r, <<>>)>>
                                                \o ch.occs
                                     /\ calls' = ch.calls
                                                 \o CallsOf(1, "privmsg", w, 1, r.idx)
    /\ reg_op' = NoRegOp
    /\ UNCHANGED <<maskVars, authVars, registryVars, cmd_prefix, lifeVars>>

\* The Deferred a command handler returned fires; a failure goes to the
\* errback dispatch_command added, which logs it.
FireCommand(k, res) ==
    /\ Running
    /\ k \in DOMAIN cmdcalls
    /\ cmdcalls[k].out = "pending"
    /\ cmdcalls' = [cmdcalls EXCEPT ![k].out =
                       IF res = "fail" THEN "fired_fail" ELSE "fired_ok"]
    /\ reg_op' = NoRegOp
    /\ UNCHANGED <<maskVars, authVars, registryVars, cmd_prefix, lifeVars, op, dispatched,
                   sent, occs, calls>>

(***************************************************************************)
(* Specifications.                                                         *)
(***************************************************************************)
NextMask == CallMaskMatches

\* The mask matcher on every bounded mask and principal.
SpecMask == InitMask /\ [][NextMask]_vars

NextAuth ==
    \/ \E m \in AuthMasks, n \in PrivNames : addPriv(m, n)
    \/ \E m \in AuthMasks, n \in PrivNames : removePriv(m, n)
    \/ \E u \in AuthUsers, n \in PrivNames : CallUserHas(u, n)

SpecAuth == Init /\ [][NextAuth]_vars

\* The installations the registry is checked on.
InitPlugins ==
    /\ NoMaskCall
    /\ InitAuth
    /\ pluginmap = [p \in PluginNames |-> "absent"]
    /\ watcher_map = [e \in EventNames |-> <<>>]
    /\ command_map = [c \in CommandNames |-> <<>>]
    /\ state_plugins = [p \in PluginNames |-> "None"]
    /\ hung = FALSE
    /\ reg_op = NoRegOp
    /\ catalog \in Catalogs
    /\ discoverable = {}
    /\ InitLogs
    /\ cmd_prefix = <<>>
    /\ InitLife

\* Registry calls and changes of the plugin package between events.
NextRegistry ==
    \/ \E p \in PluginNames : FreshLogs /\ enable_plugin_by_name(p)
    \/ \E p \in PluginNames : FreshLogs /\ disable_plugin(p)
    \/ FreshLogs /\ scan_plugins
    \/ \E p \in PluginNames : FreshLogs /\ Discover(p)
    \/ \E p \in PluginNames : FreshLogs /\ Vanish(p)
    \/ FreshLogs /\ Event("action")
    \/ \E o \in DOMAIN occs, res \in FireResults : Fire(o, res)
    \/ Forget

SpecRegistry == InitPlugins /\ [][NextRegistry]_vars

\* The registry once setup() has called enable_plugin_by_name for the names
\* to load at start, some of their implementations missing.
InitUnattended ==
    /\ NoMaskCall
    /\ InitAuth
    /\ catalog = PlainCatalog
    /\ discoverable \in SUBSET PluginNames
    /\ state_plugins = [p \in PluginNames |-> "None"]
    /\ \E names \in SUBSET PluginNames :
          LET r == ScanPlugins([p \in PluginNames |->
                                  IF p \in names THEN "enabled_but_not_found"
                                  ELSE "absent"],
                              [p \in PluginNames |-> "None"])
          IN  /\ pluginmap = r.pluginmap
              /\ watcher_map = r.watcher_map
              /\ command_map = r.command_map
    /\ hung = FALSE
    /\ reg_op = NoRegOp
    /\ InitLogs
    /\ cmd_prefix = <<>>
    /\ InitLife

\* The service left to itself: implementations appear in the plugin package,
\* events arrive and Deferreds fire; nobody enables, disables or scans.
\* CassBotService declares plugin_scan_period and starts no timer.
NextUnattended ==
    \/ \E p \in PluginNames : Discover(p)
    \/ \E ev \in {"action", "noticed"} : Event(ev)
    \/ \E o \in DOMAIN occs, res \in FireResults : Fire(o, res)
    \/ Forget

\* The reactor keeps running.
SpecUnattended ==
    InitUnattended /\ [][NextUnattended]_vars /\ WF_vars(NextUnattended)

\* The installations persistence is checked on: P1 keeps state, and its
\* loadState() may raise; P2's implementation is missing.
PersistCatalogs ==
    {[p \in PluginNames |-> [Plain EXCEPT !.stateful = (p = "P1")]],
     [p \in PluginNames |-> [Plain EXCEPT !.stateful = (p = "P1"),
                                          !.load_fails = (p = "P1")]]}

PersistPlugins == {"P1", "P2"}

PersistMask == <<"b", "!", "*", "@", "*">>

PersistPriv == <<"a">>

\* The arguments a service is made with.
ServiceArgs == {<<"cassbot", <<>>>>, <<"n", <<"#c">>>>}

\* The holders addPriv and removePriv calls have left: none, a set, a list.
PersistMemberships ==
    {[n \in PrivNames |-> IF n = PersistPriv THEN e ELSE NoMembers] :
        e \in {NoMembers,
               [kind |-> "set", members |-> {PersistMask}],
               [kind |-> "list", members |-> {}],
               [kind |-> "list", members |-> {PersistMask}]}}

InitPersist ==
    /\ NoMaskCall
    /\ memberships \in PersistMemberships
    /\ auth_call = NoAuthCall
    /\ pluginmap = [p \in PluginNames |-> "absent"]
    /\ watcher_map = [e \in EventNames |-> <<>>]
    /\ command_map = [c \in CommandNames |-> <<>>]
    /\ state_plugins = [p \in PluginNames |-> "None"]
    /\ hung = FALSE
    /\ reg_op = NoRegOp
    /\ catalog \in PersistCatalogs
    /\ discoverable = {"P1"}
    /\ InitLogs
    /\ cmd_prefix = <<>>
    /\ state_ident \in
          {ServiceState("cassbot", <<>>),
           [ServiceState("n", <<"#c">>) EXCEPT !.cmd_prefix = <<(<<":">>)>>]}
    /\ statefile = NoFile
    /\ life = NoLife
    /\ conns = <<>>
    /\ prot = 0
    /\ delay = 0
    /\ admin_call = NoAdminCall
    /\ InitMembers

\* The record of a saveStateToFile or startService call is dropped before
\* the service is worked with again.
Settled == life.kind = "none"

Settle ==
    /\ FreshLogs
    /\ ~Settled
    /\ life' = [NoLife EXCEPT !.started = life.started]
    /\ reg_op' = NoRegOp
    /\ UNCHANGED <<state_ident, statefile, sessionVars, admin_call, memberVars, registryVars,
                   maskVars, authVars, cmd_prefix, logVars>>

\* A service that is configured, saved, stopped and started again.
NextPersist ==
    \/ \E p \in PersistPlugins : FreshLogs /\ Settled /\ enable_plugin_by_name(p)
    \/ \E p \in PersistPlugins : FreshLogs /\ Settled /\ disable_plugin(p)
    \/ Settled /\ saveStateToFile
    \/ \E kind \in FileKinds : Settled /\ Damage(kind)
    \/ \E a \in ServiceArgs : NewService(a[1], a[2])
    \/ Settled /\ startService
    \/ Settle

SpecPersist == InitPersist /\ [][NextPersist]_vars

\* Connections of one service, one after another or side by side.
NextSession ==
    \/ Connect
    \/ \E c \in DOMAIN conns : buildProtocol(c)
    \/ \E c \in DOMAIN conns : Retry(c)
    \/ \E c \in DOMAIN conns : signedOn(c)
    \/ \E c \in DOMAIN conns : connectionLost(c)

SpecSession == Init /\ [][NextSession]_vars

\* The membership callbacks of one session, in any order.
NextMembers ==
    \/ \E u \in Nicks, c \in MemberChannels : userJoined(u, c)
    \/ \E u \in Nicks, c \in MemberChannels : userLeft(u, c)
    \/ \E u \in Nicks, m \in QuitMessages : userQuit(u, m)
    \/ \E u, k \in Nicks, c \in MemberChannels, m \in QuitMessages :
          u # k /\ userKicked(u, c, k, m)
    \/ \E o, n \in Nicks : o # n /\ userRenamed(o, n)
    \/ \E c \in MemberChannels : left(c)

SpecMembers == Init /\ [][NextMembers]_vars

\* Who holds what when the commands arrive: nobody anything; 'admin' by a
\* mask; 'admin' by the name 'ops' and 'ops' by a mask; 'ops' alone by a mask.
AdminMemberships ==
    LET held(S) == [kind |-> "set", members |-> S]
        boss    == <<"b", "!", "*", "@", "*">>
    IN  {[n \in PrivNames |-> NoMembers],
         [n \in PrivNames |-> IF n = AdminPriv THEN held({boss}) ELSE NoMembers],
         [n \in PrivNames |-> CASE n = AdminPriv -> held({<<"o">>})
                                [] n = <<"o">>   -> held({boss})
                                [] OTHER         -> NoMembers],
         [n \in PrivNames |-> IF n = <<"o">> THEN held({boss}) ELSE NoMembers]}

InitAdmin ==
    /\ NoMaskCall
    /\ memberships \in AdminMemberships
    /\ auth_call = NoAuthCall
    /\ pluginmap = [p \in PluginNames |-> "absent"]
    /\ watcher_map = [e \in EventNames |-> <<>>]
    /\ command_map = [c \in CommandNames |-> <<>>]
    /\ state_plugins = [p \in PluginNames |-> "None"]
    /\ hung = FALSE
    /\ reg_op = NoRegOp
    /\ catalog \in {PlainCatalog,
                    [p \in PluginNames |-> [Plain EXCEPT !.stateful = (p = "P1")]]}
    /\ discoverable \in {{"P1", "P3"}, {"P3"}}
    /\ InitLogs
    /\ cmd_prefix = <<>>
    /\ InitLife

\* Plugins are enabled at startup (tap.py's setup); then Admin commands
\* arrive.
NextAdmin ==
    \/ \E p \in AdminArgs \ {"none"} :
          FreshLogs /\ admin_call = NoAdminCall /\ enable_plugin_by_name(p)
    \/ \E cmd \in AdminCmds, user \in AuthUsers, arg \in AdminArgs,
          loadable \in BOOLEAN :
          AdminCommand(cmd, user, arg, loadable)

SpecAdmin == InitAdmin /\ [][NextAdmin]_vars

NextEvent ==
    \/ \E p \in PluginNames : enable_plugin_by_name(p)
    \/ \E p \in PluginNames : disable_plugin(p)
    \/ \E ev \in {"action", "noticed"} : Event(ev)
    \/ \E o \in DOMAIN occs, res \in FireResults : Fire(o, res)
    \/ Forget

\* Event fan-out: overlapping occurrences of events under registry changes.
SpecEvent == Init /\ [][NextEvent]_vars

NextPrivmsg ==
    \/ \E user \in Users, channel \in Channels, message \in Messages :
          Privmsg(user, channel, message)
    \/ Forget

\* Command recognition: every bounded inbound message, no plugin enabled.
SpecPrivmsg == InitCmd /\ [][NextPrivmsg]_vars

\* Here the registry changes between inbound lines only.
NextCmd ==
    \/ \E p \in PluginNames : FreshLogs /\ enable_plugin_by_name(p)
    \/ \E p \in PluginNames : FreshLogs /\ disable_plugin(p)
    \/ \E user \in Users, channel \in Channels, message \in CmdMessages :
          Privmsg(user, channel, message)
    \/ \E user \in Users, channel \in Channels, msg \in ReplyTexts :
          AddressMsg(user, channel, msg)
    \/ \E o \in DOMAIN occs, res \in FireResults : Fire(o, res)
    \/ \E k \in DOMAIN cmdcalls, res \in FireResults : FireCommand(k, res)
    \/ Forget

\* The command path under registry changes.
SpecCmd == InitCmd /\ [][NextCmd]_vars

Next ==
    \/ CallMaskMatches
    \/ \E m \in AuthMasks, n \in PrivNames : addPriv(m, n)
    \/ \E m \in AuthMasks, n \in PrivNames : removePriv(m, n)
    \/ \E u \in AuthUsers, n \in PrivNames : CallUserHas(u, n)
    \/ \E p \in PluginNames : enable_plugin_by_name(p)
    \/ \E p \in PluginNames : disable_plugin(p)
    \/ scan_plugins
    \/ \E p \in PluginNames : Discover(p)
    \/ \E p \in PluginNames : Vanish(p)
    \/ \E ev \in {"action", "noticed"} : Event(ev)
    \/ \E user \in Users, channel \in Channels, message \in Messages :
          Privmsg(user, channel, message)
    \/ \E user \in Users, channel \in Channels, msg \in ReplyTexts :
          AddressMsg(user, channel, msg)
    \/ \E o \in DOMAIN occs, res \in FireResults : Fire(o, res)
    \/ \E k \in DOMAIN cmdcalls, res \in FireResults : FireCommand(k, res)
    \/ Forget

Spec == InitCmd /\ [][Next]_vars

(***************************************************************************)
(* Properties of the event wrapper.                                        *)
(***************************************************************************)
\* Plugin p's handler has been invoked for occurrence o.
Invoked(o, p) == \E k \in DOMAIN calls : calls[k].occ = o /\ calls[k].plugin = p

\* The place of that invocation in the order of all invocations.
Pos(o, p) == CHOOSE k \in DOMAIN calls : calls[k].occ = o /\ calls[k].plugin = p

\* C1: dispatch isolation.  When the handler of a watcher raises (at once, or
\* through the failure of the Deferred it returned) during an occurrence of
\* an event, the watchers before it have been invoked and the next watcher is
\* invoked for the same occurrence; a wrapper that has run through has
\* invoked every watcher; and the wrapped call never ends in the failure.
C1_DispatchIsolation ==
    \A o \in DOMAIN occs :
        LET w == occs[o].watchers
        IN  /\ occs[o].st # "failed"
            /\ \A i \in occs[o].raised :
                 \A j \in 1..Len(w) : j <= i + 1 => Invoked(o, w[j])
            /\ occs[o].st = "returned" =>
                 \A j \in 1..Len(w) : Invoked(o, w[j])

\* A first watcher raised and the second one was invoked for the occurrence.
C1_Witness ==
    \E o \in DOMAIN occs :
        /\ Len(occs[o].watchers) >= 2
        /\ 1 \in occs[o].raised
        /\ Invoked(o, occs[o].watchers[2])

\* C2: the dispatcher does not serialize on handler completion.  Once the
\* wrapped call of an occurrence has returned to its caller, every watcher
\* of the event has been invoked for it, whatever Deferred an earlier
\* watcher returned and whether or not it has fired.
C2_NoSerialization ==
    \A o \in DOMAIN occs :
        \A j \in 1..Len(occs[o].watchers) : Invoked(o, occs[o].watchers[j])

\* C3: event ordering within one connection.  Of two occurrences, the
\* earlier one reaches a plugin indexed for both before the later one does.
C3_EventOrder ==
    \A o1 \in DOMAIN occs, o2 \in DOMAIN occs :
        o1 < o2 =>
            \A p \in Range(occs[o1].watchers) \cap Range(occs[o2].watchers) :
                Invoked(o2, p) => Invoked(o1, p) /\ Pos(o1, p) < Pos(o2, p)

(***************************************************************************)
(* Properties of the command path.                                         *)
(***************************************************************************)
\* The nick of a principal: the text before its first "!".
NickOf(user) ==
    IF \E i \in DOMAIN user : user[i] = "!"
    THEN SubSeq(user, 1, (CHOOSE i \in DOMAIN user :
                            user[i] = "!" /\ \A j \in 1..(i - 1) : user[j] # "!") - 1)
    ELSE user

\* The addressed form of one line of a reply: to the channel with the
\* requester's nick in front, or to the requester's nick as it is when the
\* request came by private message.
Addressed(user, channel, line) ==
    IF channel = Nick
    THEN [dest |-> NickOf(user), text |-> line]
    ELSE [dest |-> channel, text |-> NickOf(user) \o <<":", " ">> \o line]

\* C4: command fallback.  A dispatched verb that no plugin handles gets
\* exactly one reply, the addressed "don't understand" text naming the
\* (case-folded) verb; a verb that some plugin handles gets no fallback
\* reply, however its handlers end.
C4_CommandFallback ==
    \A i \in DOMAIN dispatched :
        LET d == dispatched[i]
            verb == Lower(d.cmd)
        IN  IF Handlers(d.index, verb) = <<>>
            THEN sent = <<Addressed(d.user, d.channel,
                            <<"Sorry, I don't understand ", "'">> \o verb
                                \o <<"'", ". :(">>)>>
            ELSE sent = <<>>

\* A verb without handler was dispatched and answered by the one reply.
C4_Witness ==
    /\ dispatched # <<>>
    /\ cmdcalls = <<>>
    /\ Len(sent) = 1
    /\ pluginmap["P3"] = "instance"

\* C5: every plugin indexed under the (case-folded) verb of a dispatch is
\* invoked with the requester, the channel and the arguments of the
\* message, whatever the other handlers of the verb do, and the failure of
\* a handler does not reach privmsg, which returns.
C5_AllHandlersInvoked ==
    \A i \in DOMAIN dispatched :
        LET d == dispatched[i]
            indexed == CommandMapGet(d.index, Lower(d.cmd))
        IN  /\ \A j \in DOMAIN indexed :
                 \E k \in DOMAIN cmdcalls :
                    /\ cmdcalls[k].plugin = indexed[j]
                    /\ cmdcalls[k].user = op.user
                    /\ cmdcalls[k].channel = op.channel
                    /\ cmdcalls[k].args = d.args
            /\ occs[1].st # "realmethod_raised"

\* The first of two handlers raised and the second was invoked, with an
\* argument.
C5_Witness ==
    /\ Len(cmdcalls) = 2
    /\ cmdcalls[1].out = "raise"
    /\ cmdcalls[2].args # <<>>

\* C6: verb matching is case-insensitive.  Whenever a verb w is dispatched,
\* every plugin indexed under a name v equal to w up to letter case has its
\* handler for v invoked, and no fallback reply is sent.
C6_CaseInsensitiveVerb ==
    \A i \in DOMAIN dispatched :
        LET d == dispatched[i]
        IN  \A v \in DOMAIN d.index :
                Lower(v) = Lower(d.cmd) =>
                    \A p \in Range(d.index[v]) :
                        /\ \E k \in DOMAIN cmdcalls :
                              cmdcalls[k].plugin = p /\ cmdcalls[k].cmd = v
                        /\ sent = <<>>

\* The conditions under which a message is addressed to the bot.
IsAddressed(channel, message) ==
    \/ channel = Nick
    \/ StartsWith(message, Nick \o <<":">>)
    \/ cmd_prefix # <<>> /\ StartsWith(message, cmd_prefix[1])

CommandText(message) ==
    IF StartsWith(message, Nick \o <<":">>)
    THEN SubSeq(message, Len(Nick) + 2, Len(message))
    ELSE IF cmd_prefix # <<>> /\ StartsWith(message, cmd_prefix[1])
    THEN SubSeq(message, Len(cmd_prefix[1]) + 1, Len(message))
    ELSE message

C8_PrivateChannelIsUser ==
    (op.kind = "privmsg" /\ op.channel = Nick) =>
        \A k \in DOMAIN cmdcalls : cmdcalls[k].channel = cmdcalls[k].user

\* The places of the line breaks of a text, and its k-th line.
Breaks(text) == {i \in DOMAIN text : text[i] = "\n"}

BreakAt(text, k) ==
    IF k = 0 THEN 0
    ELSE IF k > Cardinality(Breaks(text)) THEN Len(text) + 1
    ELSE CHOOSE i \in Breaks(text) :
            Cardinality({j \in Breaks(text) : j <= i}) = k

LineOf(text, k) == SubSeq(text, BreakAt(text, k - 1) + 1, BreakAt(text, k) - 1)

\* C9: addressed reply.  The messages address_msg has sent are, in order,
\* the addressed forms of the first lines of the reply, one message per
\* line; once address_msg has run through they are the addressed forms of
\* all its n lines.
C9_AddressedReply ==
    op.kind = "address_msg" =>
        LET n == Cardinality(Breaks(op.text)) + 1
        IN  /\ Len(sent) <= n
            /\ \A k \in DOMAIN sent :
                  sent[k] = Addressed(op.user, op.channel, LineOf(op.text, k))
            /\ (\A o \in DOMAIN occs : occs[o].st = "returned") => Len(sent) = n

\* A reply of several lines to a channel, sent in full after address_msg
\* had been suspended on a watcher of msg.
C9_Witness ==
    /\ op.kind = "address_msg"
    /\ op.channel # Nick
    /\ Len(sent) >= 2
    /\ \A o \in DOMAIN occs : occs[o].st = "returned"
    /\ \E o \in DOMAIN occs : occs[o].raised # {}

(***************************************************************************)
(* Properties of the mask matcher.                                         *)
(***************************************************************************)
\* Whether part i (1 nick, 2 local part, 3 host) is missing from a mask, the
\* parts being told apart as splituser does.
MaskPartMissing(mask, i) ==
    LET parts == SplitOnce(mask, "!")
    IN  CASE i = 1 -> FALSE
          [] i = 2 -> Len(parts) = 1 \/ Len(SplitOnce(parts[2], "@")) = 1
          [] i = 3 -> Len(parts) = 1

\* C10: a principal matches a mask iff each of its parts matches the mask's
\* part under the wildcard rules, a part missing from the mask matching any
\* value.
C10_MissingPartMatchesAnything ==
    mm_called =>
        (mm_result <=>
            \A i \in 1..3 :
                \/ MaskPartMissing(mm_mask, i)
                \/ fnmatch(splituser(mm_user)[i], splituser(mm_mask)[i]))

(***************************************************************************)
(* Properties of the AuthMap.                                              *)
(***************************************************************************)
\* The direct holder entries of a privilege name in the current map.
Holders(name) ==
    IF name \in DOMAIN memberships THEN memberships[name].members ELSE {}

\* The names that chains of direct holder entries lead to from those of S.
RECURSIVE DelegationClosure(_)
DelegationClosure(S) ==
    LET T == S \cup UNION {Holders(n) : n \in S}
    IN  IF T = S THEN S ELSE DelegationClosure(T)

\* C11: userHas agrees with reachability.  A call userHas(u, P) returns
\* without error, and returns true iff a chain of direct holder entries
\* leads from P to a name one of whose direct holder masks matches u.
C11_UserHasIsReachability ==
    auth_call.kind = "userHas" =>
        /\ ~auth_call.raised
        /\ auth_call.value <=>
              \E n \in DelegationClosure({auth_call.priv}) :
                  \E mask \in Holders(n) : mask_matches(mask, auth_call.who)

\* 'admin' is granted to 'boss!*@*' and 'ops' to the name 'admin', and
\* userHas('boss!x@y', 'ops') has returned true.
C11_Witness ==
    /\ auth_call.kind = "userHas"
    /\ auth_call.who = <<"b", "!", "x", "@", "y">>
    /\ auth_call.priv = <<"o">>
    /\ auth_call.value
    /\ Holders(<<"o">>) = {<<"a">>}
    /\ Holders(<<"a">>) = {<<"b", "!", "*", "@", "*">>}

\* C12: privilege resolution terminates.  On every privilege map, cycles of
\* delegation included, the nesting of userHas calls stays within MaxDepth.
C12_ResolutionTerminates ==
    auth_call.kind = "userHas" => ~auth_call.deep

\* userHas has returned on a map where two names hold each other, one holds
\* itself and nobody matches the user.
C12_Witness ==
    /\ auth_call.kind = "userHas"
    /\ ~auth_call.value
    /\ <<"o">> \in Holders(<<"a">>)
    /\ <<"a">> \in Holders(<<"o">>)
    /\ <<"c">> \in Holders(<<"c">>)
    /\ <<"c">> \in Holders(auth_call.priv)

\* The direct holders of privname once addPriv(mask, privname) has been
\* called on the current map, and once removePriv has.
HoldersAfterGrant(mask, privname) ==
    IF memberships[privname].kind = "list" THEN Holders(privname)
    ELSE Holders(privname) \cup {mask}

HoldersAfterRevoke(mask, privname) == Holders(privname) \ {mask}

\* C13: grant and revoke are idempotent.  After addPriv(m, P) m is a direct
\* holder of P and a second addPriv(m, P) leaves the holders of P as they
\* are; after removePriv(m, P) m is not a holder of P and a second
\* removePriv(m, P) leaves the holders of P as they are.
C13_GrantRevokeIdempotent ==
    /\ auth_call.kind = "addPriv" =>
          /\ ~auth_call.raised
          /\ auth_call.who \in Holders(auth_call.priv)
          /\ HoldersAfterGrant(auth_call.who, auth_call.priv)
                = Holders(auth_call.priv)
    /\ auth_call.kind = "removePriv" =>
          /\ auth_call.who \notin Holders(auth_call.priv)
          /\ HoldersAfterRevoke(auth_call.who, auth_call.priv)
                = Holders(auth_call.priv)

(***************************************************************************)
(* Properties of the plugin registry.                                      *)
(***************************************************************************)
\* p is in the list of every event it reports, of every command it reports,
\* unless the report fails; p is in no list at all.
IndexedUnderEvents(p) ==
    ~catalog[p].methods_fail =>
        \A e \in PluginMethods(p) : p \in Range(watcher_map[e])

IndexedUnderCommands(p) ==
    ~catalog[p].commands_fail =>
        \A c \in PluginCommands(p) : p \in Range(command_map[c])

InNoIndex(p) ==
    /\ \A e \in DOMAIN watcher_map : p \notin Range(watcher_map[e])
    /\ \A c \in DOMAIN command_map : p \notin Range(command_map[c])

\* C14: enabled but missing.  Enabling a name that discovery does not find
\* leaves it reserved: enabled, not instantiated, in no index.  A
\* scan_plugins() call that finds the implementation of a reserved name
\* instantiates it and indexes it, with no enable call in between.
C14_EnabledButMissing ==
    \A p \in PluginNames :
        /\ pluginmap[p] = "enabled_but_not_found" => InNoIndex(p)
        /\ (/\ reg_op.kind = "enable"
            /\ reg_op.name = p
            /\ reg_op.before = "absent"
            /\ p \notin Range(reg_op.seen)
            /\ ~hung)
              => pluginmap[p] = "enabled_but_not_found"
        /\ (/\ reg_op.kind = "scan"
            /\ p \in Range(reg_op.seen)
            /\ pluginmap[p] # "absent"
            /\ ~hung)
              => /\ pluginmap[p] = "instance"
                 /\ IndexedUnderEvents(p)
                 /\ IndexedUnderCommands(p)

\* A scan_plugins() call has instantiated and indexed a name that was
\* reserved.
C14_Witness ==
    /\ reg_op.kind = "scan"
    /\ "P1" \in reg_op.created
    /\ pluginmap["P1"] = "instance"
    /\ "P1" \in Range(watcher_map["action"])
    /\ "P1" \in Range(command_map[<<"a">>])

\* The names in the enabled set.
Enabled(pm) == {p \in PluginNames : pm[p] # "absent"}

\* C15: enabling an enabled plugin is a no-op.  A call
\* enable_plugin_by_name(p) on a name that is instantiated keeps the
\* instance, makes no loadState call on it, and leaves the enabled set and
\* both indexes as they were before the call.
C15_EnableEnabledIsNoOp ==
    [][\A p \in PluginNames :
          (/\ reg_op'.kind = "enable"
           /\ reg_op'.name = p
           /\ reg_op'.before = "instance"
           /\ ~hung')
             => /\ pluginmap'[p] = "instance"
                /\ p \notin reg_op'.created
                /\ \A k \in DOMAIN reg_op'.loaded : reg_op'.loaded[k].plugin # p
                /\ Enabled(pluginmap') = Enabled(pluginmap)
                /\ watcher_map' = watcher_map
                /\ command_map' = command_map]_vars

\* The values of the loadState calls made on p, in order.
LoadsOf(loaded, p) ==
    LET mine == SelectSeq(loaded, LAMBDA l : l.plugin = p)
    IN  [k \in DOMAIN mine |-> mine[k].value]

\* C16: plugin state survives disable/enable.  The value with content that
\* saveState() returned to disable_plugin is kept under the name until the
\* name is disabled again, and the call that next creates an instance of
\* the name calls loadState on it once, with that value; no other loadState
\* call is made.
C16_StateSurvivesDisableEnable ==
    [][\A p \in PluginNames :
          /\ (/\ reg_op'.kind = "disable"
              /\ reg_op'.name = p
              /\ reg_op'.before = "instance"
              /\ Truthy(reg_op'.saved))
                => state_plugins'[p] = reg_op'.saved
          /\ state_plugins'[p] # state_plugins[p]
                => reg_op'.kind = "disable" /\ reg_op'.name = p
          /\ (p \in reg_op'.created /\ Truthy(state_plugins[p]))
                => LoadsOf(reg_op'.loaded, p) = <<state_plugins[p]>>
          /\ p \notin reg_op'.created => LoadsOf(reg_op'.loaded, p) = <<>>]_vars

\* A new instance of P1 has been handed the value saved for the name.
C16_Witness ==
    /\ "P1" \in reg_op.created
    /\ reg_op.loaded = <<[plugin |-> "P1", value |-> "v1"]>>
    /\ state_plugins["P1"] = "v1"
    /\ pluginmap["P1"] = "instance"

\* C17: re-entrant rescan.  A registry call whose scan reaches a plugin
\* whose interestingMethods() calls enable_plugin_by_name returns, after
\* the first pass and at most two more, with the name enabled.
C17_ReentrantRescanConverges ==
    \A p \in PluginNames :
        (/\ reg_op.kind # "none"
         /\ p \in Range(reg_op.seen)
         /\ pluginmap[p] = "instance"
         /\ catalog[p].enables \in PluginNames)
           => /\ ~hung
              /\ reg_op.passes <= 3
              /\ pluginmap[catalog[p].enables] # "absent"

\* C18: after a scan has completed, every instantiated plugin is in the
\* list of every event and every command it declares.
C18_IndexesCoverInstances ==
    ~hung =>
        \A p \in PluginNames :
            pluginmap[p] = "instance" =>
                IndexedUnderEvents(p) /\ IndexedUnderCommands(p)

\* C19: invocation order follows enable order.  When q has just been
\* enabled, and instantiated, while p was instantiated already, an event
\* that both watch reaches p's handler before q's.
C19_InvocationFollowsEnableOrder ==
    [][\A p, q \in PluginNames :
          (/\ reg_op.kind = "enable"
           /\ reg_op.name = q
           /\ reg_op.before = "absent"
           /\ pluginmap[q] = "instance"
           /\ p # q
           /\ pluginmap[p] = "instance"
           /\ p \notin reg_op.created
           /\ occs = <<>>
           /\ Len(occs') = 1
           /\ Invoked(1, p)'
           /\ Invoked(1, q)')
             => Pos(1, p)' < Pos(1, q)']_vars

\* The place of a class in the enumeration a registry call saw.
SeenAt(p) == CHOOSE i \in DOMAIN reg_op.seen : reg_op.seen[i] = p

\* C20: a failing report does not abort the scan.  A registry call returns
\* normally, and every enabled plugin enumerated after a plugin whose
\* interestingMethods() or implementedCommands() raised is in the list of
\* every event and command it declares.
C20_FailingReportIsolated ==
    (reg_op.kind # "none" /\ ~hung) =>
        /\ ~reg_op.raised
        /\ \A p, q \in Range(reg_op.seen) :
              (/\ pluginmap[p] = "instance"
               /\ catalog[p].methods_fail \/ catalog[p].commands_fail
               /\ SeenAt(p) < SeenAt(q)
               /\ pluginmap[q] # "absent")
                 => /\ pluginmap[q] = "instance"
                    /\ IndexedUnderEvents(q)
                    /\ IndexedUnderCommands(q)

\* P1's interestingMethods() and P2's implementedCommands() have raised in
\* a scan that has indexed P2 under its events and P3 under its command.
C20_Witness ==
    /\ reg_op.kind # "none"
    /\ reg_op.seen = <<"P1", "P2", "P3">>
    /\ catalog["P1"].methods_fail
    /\ catalog["P2"].commands_fail
    /\ watcher_map["action"] = <<"P2">>
    /\ command_map[<<"a">>] = <<"P1">>
    /\ command_map[<<"A">>] = <<"P3">>

(***************************************************************************)
(* Properties of persistence and of the service's life cycle.              *)
(***************************************************************************)
\* C21: saveStateToFile followed by loadStateFromFile into a fresh service
\* gives back what was saved: once startService has loaded, into a service
\* as constructed, the state file a saveStateToFile call wrote, the names in
\* pluginmap (reserved ones included) are the names that were in it when the
\* file was saved, nickname, channels and cmd_prefix are the saved ones and
\* every privilege has the holders it had.
C21_SaveLoadRoundTrip ==
    (life.kind = "start" /\ life.fresh /\ life.completed)
        => /\ {p \in PluginNames : pluginmap[p] # "absent"} = statefile.from.enabled
           /\ state_ident = statefile.from.ident
           /\ \A n \in PrivNames : whoHas(memberships, n) = statefile.from.holders[n]

\* A fresh service made with other arguments has loaded a file saved with an
\* instance that had state, a reserved name, a holder and a cmd_prefix.
C21_Witness ==
    /\ life.kind = "start" /\ life.fresh /\ life.completed
    /\ statefile.from.enabled = {"P1", "P2"}
    /\ pluginmap["P1"] = "instance" /\ pluginmap["P2"] = "enabled_but_not_found"
    /\ life.loaded = <<[plugin |-> "P1", value |-> "v1"]>>
    /\ statefile.from.holders[PersistPriv] = {PersistMask}
    /\ memberships[PersistPriv].kind = "list"
    /\ state_ident.nickname = "n" /\ state_ident.cmd_prefix # <<>>
    /\ life.steps = StartSteps

\* C22: an absent, unreadable or corrupt state file is treated as empty
\* state.  startService on a service as constructed, with a state file that
\* is not a snapshot, returns without raising and leaves the service with
\* the identity it was made with, no plugin enabled and no holder of any
\* privilege.
C22_CorruptSnapshotIsEmptyState ==
    (life.kind = "start" /\ life.fresh /\ statefile.kind # "valid")
        => /\ life.raised = "none"
           /\ \E a \in ServiceArgs : state_ident = ServiceState(a[1], a[2])
           /\ \A p \in PluginNames : pluginmap[p] = "absent"
           /\ \A n \in PrivNames : whoHas(memberships, n) = {}

\* C23: a persisted plugin state that fails to apply does not abort the
\* load.  After startService has read a snapshot, every persisted name is
\* enabled, every persisted name whose class is found and whose loadState
\* works has been handed its persisted state, and every instance is in the
\* index lists of the names it reports.
C23_FailingBlobSkipped ==
    (life.kind = "start" /\ statefile.kind = "valid" /\ ~hung)
        => /\ \A p \in statefile.plugins_enabled : pluginmap[p] # "absent"
           /\ \A p \in statefile.plugins_enabled :
                 (/\ p \in discoverable
                  /\ ~catalog[p].load_fails
                  /\ Truthy(statefile.plugins[p]))
                    => [plugin |-> p, value |-> statefile.plugins[p]]
                          \in Range(life.loaded)
           /\ \A p \in PluginNames :
                 pluginmap[p] = "instance"
                    => IndexedUnderEvents(p) /\ IndexedUnderCommands(p)

\* C26: the state file is consumed before any connection attempt.  In every
\* startService call the state file is loaded, and no connection attempt is
\* started before it has been.
C26_LoadBeforeConnect ==
    life.kind = "start"
        => /\ \E j \in DOMAIN life.steps : life.steps[j] = "load"
           /\ \A i, j \in DOMAIN life.steps :
                 (life.steps[i] = "connect" /\ life.steps[j] = "load") => j < i

\* C27: the live-session reference.  A connection that signs on becomes
\* factory.prot and the backoff is reset; when the connection factory.prot
\* names is lost the reference goes; and after every step factory.prot is
\* absent or names a connection that has signed on and has not been lost.
C27_LiveSessionReference ==
    [][/\ \A c \in DOMAIN conns :
             /\ (conns[c] = "connected" /\ conns'[c] = "signed_on")
                   => (prot' = c /\ delay' = 0)
             /\ (conns[c] = "signed_on" /\ conns'[c] = "lost" /\ prot = c)
                   => prot' = 0
       /\ prot' = 0 \/ (prot' \in DOMAIN conns' /\ conns'[prot'] = "signed_on")
      ]_vars

\* A second connection has signed on after the backoff had grown and is the
\* live session; the first one has been lost.
C27_Witness ==
    /\ Len(conns) >= 2
    /\ conns[1] = "gone"
    /\ conns[2] = "signed_on"
    /\ prot = 2
    /\ delay = 0

(***************************************************************************)
(* Properties of the Admin commands.                                       *)
(***************************************************************************)
\* The user is matched by a holder mask of 'admin' or of a name that chains
\* of holder entries lead to from 'admin'.
IsAdmin(user) ==
    \E n \in DelegationClosure({AdminPriv}) :
        \E mask \in Holders(n) : mask_matches(mask, user)

C25_ReloadKeepsEnabled ==
    [][(/\ admin_call'.cmd = "modreload"
        /\ admin_call'.allowed
        /\ admin_call'.arg \in PluginNames
        /\ pluginmap[admin_call'.arg] # "absent")
          => /\ pluginmap'[admin_call'.arg] # "absent"
             /\ admin_call'.loadable
                   => /\ admin_call'.raised = "none"
                      /\ pluginmap[admin_call'.arg] = "instance"
                            => admin_call'.saved # "not_called"
                      /\ admin_call'.arg \in discoverable
                            => admin_call'.arg \in admin_call'.created
      ]_vars

(***************************************************************************)
(* Properties of the rescan loop and of failing reports.                   *)
(***************************************************************************)
\* C28: nested rescan requests are not dropped.  When a registry call
\* returns, a whole pass has been made after the last pass in which
\* scan_plugins() was called again, wherever in that pass the call was
\* made; so every enabled name whose class the scan saw has an instance,
\* which is in the list of every event and command it reports.
C28_NestedRescanNotDropped ==
    (reg_op.kind # "none" /\ ~reg_op.raised /\ ~hung)
        => /\ reg_op.passes > reg_op.last_request
           /\ \A p \in Range(reg_op.seen) :
                 pluginmap[p] # "absent"
                    => /\ pluginmap[p] = "instance"
                       /\ IndexedUnderEvents(p)
                       /\ IndexedUnderCommands(p)

\* Enabling P3, the last class enumerated, has made P3 ask for P1, whose
\* class had been passed already: P1 has been loaded in a second pass, and a
\* third pass has been made after that.
C28_Witness ==
    /\ reg_op.kind = "enable"
    /\ reg_op.name = "P3"
    /\ reg_op.seen = <<"P1", "P2", "P3">>
    /\ reg_op.created = {"P1", "P3"}
    /\ reg_op.last_request = 2
    /\ reg_op.passes = 3
    /\ "P1" \in Range(watcher_map["action"])
    /\ ~hung

\* C29: a plugin whose report fails contributes no entries.  A plugin whose
\* interestingMethods() raises is in no list of the event index, and a
\* plugin whose implementedCommands() raises is in no list of the command
\* index, whatever the report yielded before it raised.
C29_FailedReportContributesNothing ==
    \A p \in PluginNames :
        /\ catalog[p].methods_fail
              => \A e \in DOMAIN watcher_map : p \notin Range(watcher_map[e])
        /\ catalog[p].commands_fail
              => \A c \in DOMAIN command_map : p \notin Range(command_map[c])

(***************************************************************************)
(* Properties of the cycle guard of userHas.                               *)
(***************************************************************************)
\* C30: no privilege name is expanded twice on one recursion path.  In a
\* userHas call, the privilege names whose holders are read along a chain
\* of nested calls, the name the call was made for included, are all
\* different.
C30_NoNameExpandedTwice ==
    auth_call.kind = "userHas" =>
        \A path \in ExpansionPaths(memberships, auth_call.who, auth_call.priv,
                                   {}, <<>>, 0) :
            \A i, j \in DOMAIN path : path[i] = path[j] => i = j


(***************************************************************************)
(* Properties of saving, disabling and granting while the bot runs.        *)
(***************************************************************************)
\* C31: saving does not change the live registry.  A saveStateToFile call
\* that wrote the file leaves pluginmap (the enabled names and the
\* instances), watcher_map and command_map as they were before the call.
C31_SaveKeepsRegistry ==
    [][(life.kind = "none" /\ life'.kind = "save" /\ life'.completed)
          => /\ pluginmap' = pluginmap
             /\ watcher_map' = watcher_map
             /\ command_map' = command_map]_vars


\* C32: a disabled plugin receives no further events.  Every event handler
\* invoked, at the start of a dispatch or when a suspended dispatch goes on,
\* is a handler of a plugin that has an instance in pluginmap at that
\* moment: none is invoked for a name disable_plugin has removed.
C32_DisabledGetsNoEvents ==
    [][\A k \in (Len(calls) + 1)..Len(calls') :
          pluginmap[calls'[k].plugin] = "instance"]_vars


\* C33: after any sequence of addPriv and removePriv calls, addPriv(m, P)
\* does not fail and leaves m among the direct holders of P, also when the
\* entry of P was written by a removePriv call before.
C33_GrantAfterRevoke ==
    auth_call.kind = "addPriv"
        => /\ ~auth_call.raised
           /\ auth_call.who \in whoHas(memberships, auth_call.priv)


\* C34: message fan-out is independent of command parsing.  For every
\* inbound message the default privmsg handling does not raise, and the
\* wrapper then goes through the whole list indexed under privmsg, calling
\* its first plugin at once.
C34_FanOutIndependentOfParsing ==
    [][(op = NoOp /\ op'.kind = "privmsg")
          => /\ occs'[1].st # "realmethod_raised"
             /\ occs'[1].watchers = watcher_map["privmsg"]
             /\ watcher_map["privmsg"] # <<>>
                   => \E k \in DOMAIN calls' :
                         calls'[k] = [occ |-> 1,
                                      plugin |-> watcher_map["privmsg"][1],
                                      what |-> "privmsg"]]_vars


(***************************************************************************)
(* Properties of the indexes and of rediscovery.                           *)
(***************************************************************************)
\* C35: no plugin instance appears more than once in the index list of any
\* event name or command name after a scan, also when discovery enumerates
\* two implementations with the same plugin name.
C35_NoDuplicateIndexEntries ==
    /\ \A e \in EventNames : \A i, j \in DOMAIN watcher_map[e] :
          watcher_map[e][i] = watcher_map[e][j] => i = j
    /\ \A c \in CommandNames : \A i, j \in DOMAIN command_map[c] :
          command_map[c][i] = command_map[c][j] => i = j


\* C36: an enabled-but-missing plugin is reattached automatically.  When
\* the implementation of a reserved name has become discoverable (and stays
\* so), the name eventually has an instance that is in the index lists of
\* what it reports, with no enable, disable or scan request being made.
C36_ReattachedAutomatically ==
    \A p \in PluginNames :
        (pluginmap[p] = "enabled_but_not_found" /\ p \in discoverable)
            ~> /\ pluginmap[p] = "instance"
               /\ IndexedUnderEvents(p)
               /\ IndexedUnderCommands(p)


(***************************************************************************)
(* Properties of channel membership tracking.                              *)
(***************************************************************************)
\* The users recorded for key k; those a callback should leave for channel
\* c given the ones it found.
MembersOf(cm, k) == IF cm[k].has THEN cm[k].users ELSE {}

MembersDue(call, c, before) ==
    CASE call.kind = "userJoined" ->
            IF c = call.channel THEN before \cup {call.user} ELSE before
      [] call.kind \in {"userLeft", "userKicked"} ->
            IF c = call.channel THEN before \ {call.user} ELSE before
      [] call.kind = "userQuit" -> before \ {call.user}
      [] call.kind = "userRenamed" ->
            IF call.user \in before
            THEN (before \ {call.user}) \cup {call.other} ELSE before
      [] call.kind = "left" -> IF c = call.channel THEN {} ELSE before
      [] OTHER -> before

\* C37: channel membership tracking.  Every membership callback leaves, for
\* every channel, the users that were there, plus the one userJoined names
\* for its channel, minus the one userLeft or userKicked names for its
\* channel, minus the one userQuit names for every channel, userRenamed
\* putting the new name in place of the old one; no callback raises and no
\* key other than a channel gets an entry.
C37_MembershipTracking ==
    [][/\ member_call'.raised = "none"
       /\ \A c \in MemberChannels :
             MembersOf(channel_memberships', c)
                = MembersDue(member_call', c, MembersOf(channel_memberships, c))
       /\ \A k \in MemberKeys \ MemberChannels :
             ~channel_memberships'[k].has]_vars

====
